---- MODULE Spec2Model ----
(***************************************************************************)
(* Streaming session controller of the voice agent server:                 *)
(*   api/websocket_handler.py  websocket_endpoint, WebSocketManager        *)
(*   utils/audio_utils.py      classifiers, Workflow, WebsocketHelper      *)
(* One connection is modelled.  Python dicts are records whose DOMAIN is   *)
(* the set of keys present; Python strings that are concatenated           *)
(* (partial_response, text deltas, base64 text) are sequences.             *)
(***************************************************************************)
EXTENDS Integers, Sequences, FiniteSets, TLC

VARIABLES
    entry,              \* which code serves the connection: "endpoint" | "manager"
    pc,                 \* position of the connection's task
    mode,               \* "idle" | "text" (turn run by websocket_endpoint) | "voice" (turn run by VoicePipeline)
    peer,               \* "open" | "gone": whether the client's socket is still there
    history,            \* WebsocketHelper.history
    latest_agent,       \* WebsocketHelper.latest_agent
    partial_response,   \* WebsocketHelper.partial_response
    audio_buffer,       \* websocket_endpoint's local audio_buffer
    has_audio_buffer,   \* hasattr(connection, 'audio_buffer')
    self_audio_buffer,  \* WebsocketHelper.audio_buffer (when the attribute exists)
    input_text,         \* Workflow.run's input_text
    runner_input,       \* the conversation_history Runner.run_streamed was last called with
    runner_agent,       \* the agent Runner.run_streamed was last called with
    runner_final,       \* what output.to_input_list() last returned
    runner_last_agent,  \* what output.last_agent was when the stream was exhausted
    runner_calls,       \* Runner.run_streamed calls made while handling the current inbound frame
    runner_events,        \* events consumed from output.stream_events() in the current turn
    audio_sent,         \* audio events taken from output.stream() in the current commit
    sent,               \* headers (all fields but inputs) of the frames written by websocket.send_text
                        \* while handling the current inbound frame, in order
    last_sent,          \* the last frame written, whole
    pipeline_inputs,    \* AudioInputs handed to VoicePipeline.run while handling the current inbound frame
    received_deltas,    \* base64 texts of the append frames accepted since the previous commit frame
    last_frame,         \* the inbound frame being handled (or last handled)
    fault,              \* the exception raised while handling the current inbound frame, "none" if none
    active_connections, \* WebSocketManager.active_connections (its keys)
    voice_pipelines,    \* WebSocketManager.voice_pipelines (its keys)
    tasks,              \* two concurrent calls of websocket_endpoint: the locals and position of each
    helpers,            \* the WebsocketHelper objects, by identity
    lists,              \* the list objects bound to the calls' local audio_buffer, by identity
    actor,              \* the call of websocket_endpoint that took the last step
    applications,       \* db.applications: its documents, in the order they were inserted
    notes,              \* db.notes
    followups,          \* db.followups
    now,                \* utcnow(), in days
    calls,              \* add_job_application calls of concurrent sessions that are under way
    tool_call,          \* the last call the agent runner made of a tool: its name and arguments
    tool_result         \* what that call gave the runner: the parsed JSON string, or an exception

one == <<entry, pc, mode, peer, history, latest_agent, partial_response,
         audio_buffer, has_audio_buffer, self_audio_buffer, input_text,
         runner_input, runner_agent, runner_final, runner_last_agent, runner_calls, runner_events,
         audio_sent, sent, last_sent, pipeline_inputs, received_deltas, last_frame,
         fault, active_connections, voice_pipelines>>
pair == <<tasks, helpers, lists, actor>>
store == <<applications, notes, followups, now, calls, tool_call, tool_result>>
vars == <<one, pair, store>>

----------------------------------------------------------------------------
(* Bounds of the model *)

MaxEvents == 2      \* runner events consumed per turn
MaxHistory == 2     \* a voice turn starts only while history is shorter than this

----------------------------------------------------------------------------
(* Values *)

job_tracking_agent == "Job Application Tracker"
Agents == {job_tracking_agent, "handoff_agent"}

UserItem(content) == [type |-> "message", role |-> "user", content |-> content]
AssistantItem(content) == [type |-> "message", role |-> "assistant", content |-> content]

\* Items a client sends in history.update frames.
ClientUser == UserItem(<<"hello">>)
ClientAssistant == AssistantItem(<<"earlier reply">>)
ClientUserNoContent == [type |-> "message", role |-> "user"]

\* What event.item.to_input_item() and output.to_input_list() are made of.
RunnerMessage == AssistantItem(<<"final reply">>)
RunnerToolCall == [type |-> "function_call", call_id |-> "call_1", name |-> "add_job_application"]
RunnerItems == {RunnerMessage, RunnerToolCall}

\* event.data.delta of the ResponseTextDeltaEvents
TextDeltas == {<<"tok">>}

\* Texts the speech-to-text step of VoicePipeline recognises
Transcripts == {<<"spoken">>}

----------------------------------------------------------------------------
(* base64 text -> bytes -> int16 samples -> float32 samples *)

B64Alphabet == {"A", "D", "Q", "w", "8", "/"}

\* Position of a character in the base64 alphabet (the characters the model's frames use).
B64Val(c) ==
    CASE c = "A" -> 0
      [] c = "D" -> 3
      [] c = "Q" -> 16
      [] c = "w" -> 48
      [] c = "8" -> 60
      [] c = "/" -> 63

RECURSIVE B64Bytes(_)
B64Bytes(d) ==
    IF Len(d) >= 4
    THEN LET v == B64Val(d[1]) * 262144 + B64Val(d[2]) * 4096 + B64Val(d[3]) * 64 + B64Val(d[4])
         IN  <<v \div 65536, (v \div 256) % 256, v % 256>> \o B64Bytes(SubSeq(d, 5, Len(d)))
    ELSE IF Len(d) = 3
    THEN LET v == (B64Val(d[1]) * 4096 + B64Val(d[2]) * 64 + B64Val(d[3])) \div 4
         IN  <<v \div 256, v % 256>>
    ELSE IF Len(d) = 2
    THEN <<(B64Val(d[1]) * 64 + B64Val(d[2])) \div 16>>
    ELSE <<>>

IsB64Char(c) == c \in B64Alphabet
IsPad(c) == c = "="

\* base64.b64decode(s) with validate=False: characters outside the alphabet are
\* discarded, and the padding must complete the last group of four.
b64decode(s) ==
    LET d == SelectSeq(s, IsB64Char)
        pads == Len(SelectSeq(s, IsPad))
        r == Len(d) % 4
    IN  IF r = 1 \/ (r = 2 /\ pads < 2) \/ (r = 3 /\ pads < 1)
        THEN [ok |-> FALSE, bytes |-> <<>>]
        ELSE [ok |-> TRUE, bytes |-> B64Bytes(d)]

\* np.frombuffer(b, dtype=np.int16): little-endian two's complement pairs; the
\* length must be a multiple of the item size.
frombuffer_int16(b) ==
    IF Len(b) % 2 # 0
    THEN [ok |-> FALSE, samples |-> <<>>]
    ELSE [ok |-> TRUE,
          samples |-> [i \in 1..(Len(b) \div 2) |->
                          LET u == b[2 * i - 1] + 256 * b[2 * i]
                          IN  IF u >= 32768 THEN u - 65536 ELSE u]]

\* x.astype(np.float32) / 32768.0, kept exact as a fraction
Float32Over32768(x) == [num |-> x, den |-> 32768]

extract_audio_chunk(data) ==
    IF "delta" \notin DOMAIN data
    THEN [ok |-> FALSE, chunk |-> <<>>]
    ELSE LET decoded_bytes == b64decode(data.delta)
             audio_int16 == frombuffer_int16(decoded_bytes.bytes)
         IN  IF ~decoded_bytes.ok \/ ~audio_int16.ok
             THEN [ok |-> FALSE, chunk |-> <<>>]
             ELSE [ok |-> TRUE,
                   chunk |-> [i \in 1..Len(audio_int16.samples) |->
                                 Float32Over32768(audio_int16.samples[i])]]

\* The decoding WebsocketHelper.append_audio does inside its try: int16 samples, not normalised.
append_audio_decode(delta) ==
    LET audio_bytes == b64decode(delta)
        audio_np == frombuffer_int16(audio_bytes.bytes)
    IN  IF ~audio_bytes.ok \/ ~audio_np.ok
        THEN [ok |-> FALSE, chunk |-> <<>>]
        ELSE [ok |-> TRUE, chunk |-> audio_np.samples]

\* A faulty variant of append_audio_buffer: the chunk is stored whatever the decoding did.
append_audio_always(buffer, decoded) == Append(buffer, decoded.chunk)

\* append_audio (lines 287-300): the append is inside the try, after the decoding
append_audio_buffer(buffer, decoded) ==
    IF decoded.ok THEN Append(buffer, decoded.chunk) ELSE buffer

\* websocket_endpoint line 154: audio_buffer.append(extract_audio_chunk(message));
\* the argument is evaluated first, and if it raises nothing is appended
endpoint_append_chunk(buffer, extracted) ==
    IF extracted.ok THEN Append(buffer, extracted.chunk) ELSE buffer

\* A faulty variant of np_concatenate: only the last chunk is kept.
last_chunk_only(chunks) == IF chunks = <<>> THEN <<>> ELSE chunks[Len(chunks)]

RECURSIVE np_concatenate(_)
np_concatenate(chunks) ==
    IF chunks = <<>> THEN <<>> ELSE Head(chunks) \o np_concatenate(Tail(chunks))

concat_audio_chunks(chunks) == np_concatenate(chunks)

\* base64 texts of append frames
DeltaOne == <<"A", "Q", "A", "=">>                        \* bytes 01 00: one sample, 1
DeltaTwo == <<"A", "Q", "D", "/", "/", "w", "=", "=">>    \* bytes 01 00 ff ff: samples 1, -1
DeltaBadPadding == <<"A", "Q", "A">>                      \* binascii.Error: Incorrect padding
DeltaOddBytes == <<"A", "Q", "=", "=">>                   \* one byte: frombuffer raises ValueError
DeltaEmpty == <<>>                                        \* "": no bytes, an array of no samples
ValidDeltas == {DeltaOne, DeltaTwo, DeltaEmpty}
Deltas == ValidDeltas \cup {DeltaBadPadding, DeltaOddBytes}

\* The utterances clients stream: the valid append frames between two commits
\* carry a prefix of one of these.
Utterances == {<<DeltaOne, DeltaTwo, DeltaOne>>, <<DeltaEmpty>>}
IsPrefix(s, t) == Len(s) <= Len(t) /\ SubSeq(t, 1, Len(s)) = s
MayAppend(deltas, delta) ==
    delta \in ValidDeltas => \E u \in Utterances : IsPrefix(Append(deltas, delta), u)

----------------------------------------------------------------------------
(* Inbound frames, as receive_json returns them *)

InputLists == {<<>>, <<ClientAssistant>>, <<ClientUser>>,
               <<ClientAssistant, ClientUser>>, <<ClientUserNoContent>>}

HistoryUpdateFrames ==
    {[type |-> "history.update", inputs |-> l] : l \in InputLists}
    \cup {[type |-> "history.update", inputs |-> l, reset_agent |-> TRUE] :
             l \in {<<>>, <<ClientAssistant>>, <<ClientUser>>}}

AppendFrames == {[type |-> "input_audio_buffer.append", delta |-> d] : d \in Deltas}

CommitFrame == [type |-> "input_audio_buffer.commit"]

InboundFrames ==
    HistoryUpdateFrames \cup AppendFrames
    \cup {CommitFrame,
          [type |-> "input_audio_buffer.append"],   \* no delta
          [type |-> "history.update"],              \* no inputs
          [type |-> "session.ping"],                \* a type the server does not know
          [event |-> "noise"]}                      \* no type

NoFrame == [event |-> "none yet"]

Last(s) == s[Len(s)]
ButLast(s) == SubSeq(s, 1, Len(s) - 1)

\* d.get("role"): None when the key is absent
GetRole(item) == IF "role" \in DOMAIN item THEN item.role ELSE "None"

\* data["type"] / data["inputs"] raising KeyError in the classifier chain of
\* websocket_endpoint (lines 143-157)
ClassifierRaises(data) ==
    IF "type" \notin DOMAIN data THEN TRUE
    ELSE data.type = "history.update" /\ "inputs" \notin DOMAIN data

is_sync_message(data) ==
    data.type = "history.update"
    /\ (IF data.inputs = <<>> THEN TRUE ELSE GetRole(Last(data.inputs)) # "user")

is_new_text_message(data) ==
    data.type = "history.update"
    /\ (IF data.inputs # <<>> THEN GetRole(Last(data.inputs)) = "user" ELSE FALSE)

is_new_audio_chunk(data) == data.type = "input_audio_buffer.append"

\* A faulty variant of is_audio_complete: whatever is not an append is a commit.
is_audio_complete_by_default(data) == data.type # "input_audio_buffer.append"

is_audio_complete(data) == data.type = "input_audio_buffer.commit"

\* message.get("reset_agent", False)
GetResetAgent(data) == IF "reset_agent" \in DOMAIN data THEN data.reset_agent ELSE FALSE

----------------------------------------------------------------------------
(* Outbound frames *)

HistoryUpdated(reason, inputs, agent) ==
    [type |-> "history.updated", reason |-> reason, inputs |-> inputs, agent_name |-> agent]

B64Chr(v) ==
    CASE v = 0 -> "A"
      [] v = 3 -> "D"
      [] v = 16 -> "Q"
      [] v = 48 -> "w"
      [] v = 60 -> "8"
      [] v = 63 -> "/"

\* audio_np.tobytes() of an int16 array
tobytes_int16(a) ==
    [i \in 1..(2 * Len(a)) |->
        LET x == a[(i + 1) \div 2]
            u == IF x < 0 THEN x + 65536 ELSE x
        IN  IF i % 2 = 1 THEN u % 256 ELSE u \div 256]

RECURSIVE b64encode(_)
b64encode(b) ==
    IF Len(b) >= 3
    THEN LET v == b[1] * 65536 + b[2] * 256 + b[3]
         IN  <<B64Chr(v \div 262144), B64Chr((v \div 4096) % 64),
               B64Chr((v \div 64) % 64), B64Chr(v % 64)>> \o b64encode(SubSeq(b, 4, Len(b)))
    ELSE IF Len(b) = 2
    THEN LET v == (b[1] * 256 + b[2]) * 4
         IN  <<B64Chr(v \div 4096), B64Chr((v \div 64) % 64), B64Chr(v % 64), "=">>
    ELSE IF Len(b) = 1
    THEN LET v == b[1] * 16
         IN  <<B64Chr(v \div 64), B64Chr(v % 64), "=", "=">>
    ELSE <<>>

transform_data_to_events(audio_np) ==
    [type |-> "response.audio.delta", delta |-> b64encode(tobytes_int16(audio_np)),
     output_index |-> 0, content_index |-> 0, item_id |-> "", response_id |-> "", event_id |-> ""]

\* event.data of the VoiceStreamEventAudio events the pipeline's output yields
SynthesizedAudio == {<<1, -1>>}

AudioDone == [type |-> "audio.done"]

\* What is kept of every frame written: all of it but the history snapshot.
Header(frame) ==
    IF frame.type = "history.updated"
    THEN IF "reason" \in DOMAIN frame
         THEN [type |-> frame.type, reason |-> frame.reason, agent_name |-> frame.agent_name]
         ELSE [type |-> frame.type, sync |-> frame.sync, agent_name |-> frame.agent_name]
    ELSE frame

NothingSent == [type |-> "nothing"]

IsHistoryUpdated(frame) == frame.type = "history.updated"
IsTextDeltaFrame(frame) ==
    IF frame.type = "history.updated" THEN frame.reason = "response.text.delta" ELSE FALSE

----------------------------------------------------------------------------
(* WebsocketHelper: the state each method leaves and the frames it writes *)

\* A faulty variant of show_user_input_history: the user item is not appended.
show_user_input_skips_append(h, user_input) == h

\* show_user_input: the history after the append, and the frame
show_user_input_history(h, user_input) == Append(h, UserItem(user_input))
show_user_input_frame(h, agent) == HistoryUpdated("user.input", h, agent)

\* A faulty variant of stream_response_history: the partial text is stored in history.
stream_response_persists_partial(h, partial, new_tokens, is_text) ==
    IF is_text THEN h ELSE Append(h, AssistantItem(partial \o new_tokens))

\* A faulty variant of stream_response_frames: the is_text early return is missing.
stream_response_frames_unguarded(h, partial, agent, is_text) ==
    <<HistoryUpdated("response.text.delta", h \o <<AssistantItem(partial)>>, agent)>>

\* A faulty variant of stream_response_partial: the tokens are added before the
\* is_text early return.
stream_response_partial_unguarded(partial, new_tokens, is_text) == partial \o new_tokens

\* stream_response(new_tokens, is_text)
stream_response_partial(partial, new_tokens, is_text) ==
    IF is_text THEN partial ELSE partial \o new_tokens
stream_response_history(h, partial, new_tokens, is_text) == h
stream_response_frames(h, partial, agent, is_text) ==
    IF is_text THEN <<>>
    ELSE <<HistoryUpdated("response.text.delta", h \o <<AssistantItem(partial)>>, agent)>>

\* A faulty variant of handle_new_item_history: the item is put before the history.
handle_new_item_prepends(h, item) == <<item>> \o h

\* handle_new_item on a RunItemStreamEvent
handle_new_item_history(h, item) == Append(h, item)
handle_new_item_frame(h, agent) == HistoryUpdated("response.input_item", h, agent)

\* A faulty variant of text_output_complete_history: the local history is kept.
text_output_complete_keeps_local(h, to_input_list) == h

\* A faulty variant of text_output_complete_agent: output.last_agent is not taken over.
text_output_complete_keeps_agent(agent, last_agent) == agent

\* text_output_complete(output, is_done=True)
text_output_complete_partial(partial) == <<>>
text_output_complete_history(h, to_input_list) == to_input_list
text_output_complete_agent(agent, last_agent) == last_agent
text_output_complete_frame(h, agent) == HistoryUpdated("response.done", h, agent)

\* output.to_input_list(): the input the runner was given followed by the items it
\* produced (here a tool call and then the reply)
FinalNewItems == {<<RunnerToolCall, RunnerMessage>>}
FinalTranscripts(input) == {input \o new_items : new_items \in FinalNewItems}

----------------------------------------------------------------------------
(* Initial state: nothing accepted yet *)

InvalidJson == [raw |-> "not json"]

\* no tool has been called yet
NoCall == [tool |-> "None", failing |-> "none"]
NoResult == [raised |-> FALSE, success |-> FALSE, error |-> <<"no call yet">>]
Sessions == {"session_1", "session_2"}
NotCalled == [pc |-> "idle", application_data |-> <<>>, recent_app |-> <<>>, result |-> NoResult]

\* Two clients are connected at once: the server runs websocket_endpoint once
\* for each, as two tasks of one event loop.
Conns == {"conn_1", "conn_2"}
NotAccepted == [pc |-> "accept", mode |-> "idle", peer |-> "open", connection |-> "None",
                audio_buffer |-> "None", user_input |-> <<>>, out |-> <<>>]
NoHelper == [history |-> <<>>, latest_agent |-> "None", partial_response |-> <<>>]

Init ==
    /\ entry \in {"endpoint", "manager"}
    /\ pc = "accept"
    /\ mode = "idle"
    /\ peer = "open"
    /\ history = <<>>
    /\ latest_agent = job_tracking_agent
    /\ partial_response = <<>>
    /\ audio_buffer = <<>>
    /\ has_audio_buffer = FALSE
    /\ self_audio_buffer = <<>>
    /\ input_text = <<>>
    /\ runner_input = <<>>
    /\ runner_agent = job_tracking_agent
    /\ runner_final = <<>>
    /\ runner_last_agent = "None"
    /\ runner_calls = 0
    /\ runner_events = <<>>
    /\ audio_sent = 0
    /\ sent = <<>>
    /\ last_sent = NothingSent
    /\ pipeline_inputs = <<>>
    /\ received_deltas = <<>>
    /\ last_frame = NoFrame
    /\ fault = "none"
    /\ active_connections = {}
    /\ voice_pipelines = {}
    /\ tasks = [call \in Conns |-> NotAccepted]
    /\ helpers = [call \in Conns |-> NoHelper]
    /\ lists = [call \in Conns |-> <<>>]
    /\ actor = "none"
    /\ applications = <<>>
    /\ notes = <<>>
    /\ followups = <<>>
    /\ now = 0
    /\ calls = [s \in Sessions |-> NotCalled]
    /\ tool_call = NoCall
    /\ tool_result = NoResult

session == <<history, latest_agent, partial_response>>
buffers == <<audio_buffer, has_audio_buffer, self_audio_buffer>>
turn == <<input_text, runner_input, runner_agent, runner_final, runner_last_agent, runner_calls, runner_events, audio_sent>>
manager == <<active_connections, voice_pipelines>>

\* A faulty variant of commit_audio_returns_early: the empty buffer is processed too.
commit_audio_never_returns_early(has_buffer, buffer) == FALSE

\* commit_audio lines 304-306: nothing to process
commit_audio_returns_early(has_buffer, buffer) == ~has_buffer \/ buffer = <<>>

\* A faulty variant of commit_audio_clear_on_error: the except clause leaves the buffer.
commit_audio_keeps_buffer(buffer) == buffer

\* commit_audio's two assignments self.audio_buffer = [] (lines 351 and 359), and
\* websocket_endpoint's audio_buffer = [] (line 161)
commit_audio_clear_on_success(buffer) == <<>>
commit_audio_clear_on_error(buffer) == <<>>
endpoint_reset_audio_buffer(buffer) == <<>>

\* A faulty variant of Raise: commit_audio has no except clause, and the
\* exception leaves the caller as well.
RaisePropagates(kind) ==
    /\ fault' = kind
    /\ mode' = "idle"
    /\ pc' = "closed"
    /\ UNCHANGED buffers

\* An exception leaving Workflow.run or the pipeline.  In a voice turn it ends in
\* commit_audio's except clause (lines 353-359), which clears the buffer, and the
\* caller goes on (line 161); in a text turn it leaves the while loop of
\* websocket_endpoint (line 165) and the endpoint returns.
Raise(kind) ==
    /\ fault' = kind
    /\ mode' = "idle"
    /\ IF mode = "voice"
       THEN /\ pc' = "done"
            /\ self_audio_buffer' = commit_audio_clear_on_error(self_audio_buffer)
            /\ audio_buffer' = IF entry = "endpoint"
                               THEN endpoint_reset_audio_buffer(audio_buffer)
                               ELSE audio_buffer
            /\ UNCHANGED has_audio_buffer
       ELSE /\ pc' = "closed"
            /\ UNCHANGED buffers

----------------------------------------------------------------------------
(* websocket_endpoint *)

\* A faulty variant of Accept: the new session is announced to the client.
AcceptAnnounces ==
    /\ entry = "endpoint" /\ pc = "accept"
    /\ pc' = "recv"
    /\ history' = <<>>
    /\ latest_agent' = job_tracking_agent
    /\ partial_response' = <<>>
    /\ audio_buffer' = <<>>
    /\ last_sent' = HistoryUpdated("history.update", <<>>, job_tracking_agent)
    /\ sent' = <<Header(last_sent')>>
    /\ UNCHANGED <<store, pair, entry, mode, peer, has_audio_buffer, self_audio_buffer, turn,
                   pipeline_inputs, received_deltas, last_frame, fault, manager>>

\* lines 128-133: accept, create the WebsocketHelper and the local buffer
Accept ==
    /\ entry = "endpoint" /\ pc = "accept"
    /\ pc' = "recv"
    /\ history' = <<>>
    /\ latest_agent' = job_tracking_agent
    /\ partial_response' = <<>>
    /\ audio_buffer' = <<>>
    /\ UNCHANGED <<store, pair, entry, mode, peer, has_audio_buffer, self_audio_buffer, turn, sent, last_sent,
                   pipeline_inputs, received_deltas, last_frame, fault, manager>>

\* A faulty variant of Receiving: frames are also read while a turn streams
\* (the handler is started as a task of its own instead of being awaited).
ReceivingDuringTurn == entry = "endpoint" /\ pc \in {"recv", "stream_events"} /\ peer = "open"

\* line 137: receive_json returns a frame
Receiving == entry = "endpoint" /\ pc = "recv" /\ peer = "open"

\* lines 143-146: a history-sync frame
RecvSync(message) ==
    /\ Receiving
    /\ ~ClassifierRaises(message) /\ is_sync_message(message)
    /\ last_frame' = message
    /\ pc' = "done"
    /\ history' = message.inputs
    /\ latest_agent' = IF GetResetAgent(message) THEN job_tracking_agent ELSE latest_agent
    /\ UNCHANGED <<store, pair, entry, mode, peer, partial_response, buffers, turn, sent, last_sent, pipeline_inputs,
                   received_deltas, fault, manager>>

\* A faulty variant of process_inputs_history: the last input stays in history.
process_inputs_keeps_last(data) == data.inputs

\* process_inputs (lines 62-64): history is assigned before the content is read
process_inputs_history(data) == ButLast(data.inputs)
process_inputs_raises(data) == "content" \notin DOMAIN Last(data.inputs)
process_inputs_content(data) == Last(data.inputs).content

\* lines 147-149: a new-text frame, up to the first await of Workflow.run
RecvNewText(message) ==
    /\ Receiving
    /\ ~ClassifierRaises(message) /\ ~is_sync_message(message) /\ is_new_text_message(message)
    /\ last_frame' = message
    /\ history' = process_inputs_history(message)
    /\ IF process_inputs_raises(message)
       THEN /\ pc' = "closed"
            /\ fault' = "KeyError"
            /\ UNCHANGED <<mode, input_text>>
       ELSE /\ pc' = "show_user_input"
            /\ mode' = "text"
            /\ input_text' = process_inputs_content(message)
            /\ UNCHANGED fault
    /\ UNCHANGED <<store, pair, entry, peer, latest_agent, partial_response, buffers, runner_input,
                   runner_agent, runner_final, runner_last_agent, runner_calls, runner_events, audio_sent, sent, last_sent,
                   pipeline_inputs, received_deltas, manager>>

\* lines 153-154: an audio chunk
RecvAudioChunk(message) ==
    /\ Receiving
    /\ ~ClassifierRaises(message) /\ ~is_sync_message(message) /\ ~is_new_text_message(message)
    /\ is_new_audio_chunk(message)
    /\ "delta" \in DOMAIN message => MayAppend(received_deltas, message.delta)
    /\ last_frame' = message
    /\ LET extracted == extract_audio_chunk(message)
       IN  IF extracted.ok
           THEN /\ audio_buffer' = endpoint_append_chunk(audio_buffer, extracted)
                /\ received_deltas' = Append(received_deltas, message.delta)
                /\ pc' = "done"
                /\ UNCHANGED fault
           ELSE /\ audio_buffer' = endpoint_append_chunk(audio_buffer, extracted)
                /\ pc' = "closed"
                /\ fault' = IF "delta" \in DOMAIN message THEN "decode" ELSE "KeyError"
                /\ UNCHANGED received_deltas
    /\ UNCHANGED <<store, pair, entry, mode, peer, session, has_audio_buffer, self_audio_buffer, turn, sent, last_sent,
                   pipeline_inputs, manager>>

\* lines 157-161 with commit_audio up to its first await (lines 302-342)
RecvAudioComplete(message) ==
    /\ Receiving
    /\ ~ClassifierRaises(message) /\ ~is_sync_message(message) /\ ~is_new_text_message(message)
    /\ ~is_new_audio_chunk(message) /\ is_audio_complete(message)
    /\ audio_buffer # <<>> => Len(history) < MaxHistory
    /\ last_frame' = message
    /\ has_audio_buffer' = TRUE
    /\ self_audio_buffer' = audio_buffer
    /\ IF commit_audio_returns_early(TRUE, audio_buffer)
       THEN /\ audio_buffer' = endpoint_reset_audio_buffer(audio_buffer)
            /\ pc' = "done"
            /\ UNCHANGED <<mode, pipeline_inputs>>
       ELSE /\ pipeline_inputs' = Append(pipeline_inputs, np_concatenate(audio_buffer))
            /\ pc' = "pipeline_run"
            /\ mode' = "voice"
            /\ UNCHANGED audio_buffer
    /\ UNCHANGED <<store, pair, entry, peer, session, turn, sent, last_sent, received_deltas, fault, manager>>

\* a frame none of the four predicates accepts: the loop goes round
RecvUnclassified(message) ==
    /\ Receiving
    /\ ~ClassifierRaises(message) /\ ~is_sync_message(message) /\ ~is_new_text_message(message)
    /\ ~is_new_audio_chunk(message) /\ ~is_audio_complete(message)
    /\ last_frame' = message
    /\ pc' = "done"
    /\ UNCHANGED <<store, pair, entry, mode, peer, session, buffers, turn, sent, last_sent, pipeline_inputs,
                   received_deltas, fault, manager>>

\* data["type"] or data["inputs"] raises KeyError: caught at line 165, outside the loop
RecvKeyError(message) ==
    /\ Receiving
    /\ ClassifierRaises(message)
    /\ last_frame' = message
    /\ fault' = "KeyError"
    /\ pc' = "closed"
    /\ UNCHANGED <<store, pair, entry, mode, peer, session, buffers, turn, sent, last_sent, pipeline_inputs,
                   received_deltas, manager>>

\* receive_json raises json.JSONDecodeError (line 137): not a WebSocketDisconnect,
\* so it is caught at line 165, outside the loop
RecvInvalidJson ==
    /\ Receiving
    /\ last_frame' = InvalidJson
    /\ fault' = "json"
    /\ pc' = "closed"
    /\ UNCHANGED <<store, pair, entry, mode, peer, session, buffers, turn, sent, last_sent, pipeline_inputs,
                   received_deltas, manager>>

\* A faulty variant of RecvDisconnect: the WebSocketDisconnect of receive_json is
\* caught and the loop goes round again.
RecvDisconnectIgnored ==
    /\ entry = "endpoint" /\ pc = "recv"
    /\ peer' = "gone"
    /\ UNCHANGED <<store, pair, entry, pc, mode, session, buffers, turn, sent, last_sent, pipeline_inputs,
                   received_deltas, last_frame, fault, manager>>

\* receive_json raises WebSocketDisconnect (lines 138-140): the client has gone
RecvDisconnect ==
    /\ entry = "endpoint" /\ pc = "recv"
    /\ peer' = "gone"
    /\ pc' = "closed"
    /\ UNCHANGED <<store, pair, entry, mode, session, buffers, turn, sent, last_sent, pipeline_inputs,
                   received_deltas, last_frame, fault, manager>>

\* line 135: the handling of a frame is over and the loop goes back to
\* receive_json; the records kept about the frame just handled start afresh
LoopBack ==
    /\ pc = "done"
    /\ pc' = "recv"
    /\ last_frame' = NoFrame
    /\ sent' = <<>>
    /\ last_sent' = NothingSent
    /\ fault' = "none"
    /\ pipeline_inputs' = <<>>
    /\ received_deltas' = IF last_frame = CommitFrame THEN <<>> ELSE received_deltas
    /\ input_text' = <<>>
    /\ runner_input' = <<>>
    /\ runner_agent' = job_tracking_agent
    /\ runner_final' = <<>>
    /\ runner_last_agent' = "None"
    /\ runner_calls' = 0
    /\ runner_events' = <<>>
    /\ audio_sent' = 0
    /\ UNCHANGED <<store, pair, entry, mode, peer, session, buffers, manager>>

\* A faulty variant of SendSucceeds: the frame overtakes the frames written before it.
SendSucceedsOutOfOrder(frames) ==
    /\ peer = "open" /\ peer' = peer
    /\ sent' = [i \in 1..Len(frames) |-> Header(frames[i])] \o sent
    /\ last_sent' = IF frames = <<>> THEN last_sent ELSE Last(frames)

\* websocket.send_text: it writes the frame, or it raises.  websocket_endpoint
\* learns from the failure that the client has gone (its next receive_json raises
\* WebSocketDisconnect); WebSocketManager keeps no record of it.
SendSucceeds(frames) ==
    /\ peer = "open" /\ peer' = peer
    /\ sent' = sent \o [i \in 1..Len(frames) |-> Header(frames[i])]
    /\ last_sent' = IF frames = <<>> THEN last_sent ELSE Last(frames)
SendFails ==
    /\ peer' = IF entry = "endpoint" THEN "gone" ELSE peer
    /\ UNCHANGED <<sent, last_sent>>

----------------------------------------------------------------------------
(* Workflow.run, driven by websocket_endpoint (text) or by VoicePipeline (voice) *)

\* lines 94-96: show_user_input appends the user item and writes the user.input frame
ShowUserInput ==
    /\ pc = "show_user_input"
    /\ history' = show_user_input_history(history, input_text)
    /\ \/ /\ SendSucceeds(<<show_user_input_frame(history', latest_agent)>>)
          /\ pc' = "run_streamed"
          /\ UNCHANGED <<mode, buffers, fault>>
       \/ /\ SendFails
          /\ Raise("send")
    /\ UNCHANGED <<store, pair, entry, latest_agent, partial_response, turn, pipeline_inputs,
                   received_deltas, last_frame, manager>>

\* A faulty variant of RunStreamed: Workflow.run starts the runner a second time.
RunStreamedTwice ==
    /\ pc = "run_streamed"
    /\ runner_input' = history
    /\ runner_agent' = latest_agent
    /\ runner_calls' = runner_calls + 2
    /\ runner_events' = <<>>
    /\ pc' = "stream_events"
    /\ UNCHANGED <<store, pair, entry, mode, peer, session, buffers, input_text, runner_final, runner_last_agent, audio_sent,
                   sent, last_sent, pipeline_inputs, received_deltas, last_frame, fault, manager>>

\* lines 98-101: Runner.run_streamed(latest_agent, conversation_history)
RunStreamed ==
    /\ pc = "run_streamed"
    /\ runner_input' = history
    /\ runner_agent' = latest_agent
    /\ runner_calls' = runner_calls + 1
    /\ runner_events' = <<>>
    /\ pc' = "stream_events"
    /\ UNCHANGED <<store, pair, entry, mode, peer, session, buffers, input_text, runner_final, runner_last_agent, audio_sent,
                   sent, last_sent, pipeline_inputs, received_deltas, last_frame, fault, manager>>

\* event.item.to_input_item() of the RunItemStreamEvents consumed so far
RECURSIVE ItemsOf(_)
ItemsOf(events) ==
    IF events = <<>> THEN <<>>
    ELSE LET rest == ItemsOf(ButLast(events))
             ev == Last(events)
         IN  IF ev.kind = "run_item" THEN Append(rest, ev.item) ELSE rest

\* lines 103-104 with a RunItemStreamEvent: handle_new_item lines 166-178.  The
\* runner streams the items of a run in the order it produces them.
StreamItemEvent(item) ==
    /\ pc = "stream_events" /\ Len(runner_events) < MaxEvents
    /\ \E produced \in FinalNewItems : IsPrefix(Append(ItemsOf(runner_events), item), produced)
    /\ runner_events' = Append(runner_events, [kind |-> "run_item", item |-> item])
    /\ history' = handle_new_item_history(history, item)
    /\ \/ /\ SendSucceeds(<<handle_new_item_frame(history', latest_agent)>>)
          /\ UNCHANGED <<pc, mode, buffers, fault>>
       \/ /\ SendFails
          /\ Raise("send")
    /\ UNCHANGED <<store, pair, entry, latest_agent, partial_response, input_text, runner_input,
                   runner_agent, runner_final, runner_last_agent, runner_calls, audio_sent, pipeline_inputs,
                   received_deltas, last_frame, manager>>

\* lines 103-107 with a text delta: handle_new_item lines 179-180 calls
\* stream_response(delta); the delta is then yielded, and in a text turn
\* websocket_endpoint (line 150) calls stream_response(delta, is_text=True)
StreamTextDelta(delta) ==
    /\ pc = "stream_events" /\ Len(runner_events) < MaxEvents
    /\ Len(partial_response) < MaxEvents
    /\ runner_events' = Append(runner_events, [kind |-> "text_delta", delta |-> delta])
    /\ LET partial1 == stream_response_partial(partial_response, delta, FALSE)
           history1 == stream_response_history(history, partial_response, delta, FALSE)
           frames1 == stream_response_frames(history1, partial1, latest_agent, FALSE)
       IN  \/ /\ IF mode = "text"
                 THEN /\ partial_response' = stream_response_partial(partial1, delta, TRUE)
                      /\ history' = stream_response_history(history1, partial1, delta, TRUE)
                      /\ SendSucceeds(frames1 \o stream_response_frames(history', partial_response',
                                                                       latest_agent, TRUE))
                 ELSE /\ partial_response' = partial1
                      /\ history' = history1
                      /\ SendSucceeds(frames1)
              /\ UNCHANGED <<pc, mode, buffers, fault>>
           \/ /\ SendFails
              /\ partial_response' = partial1
              /\ history' = history1
              /\ Raise("send")
    /\ UNCHANGED <<store, pair, entry, latest_agent, input_text, runner_input, runner_agent,
                   runner_final, runner_last_agent, runner_calls, audio_sent, pipeline_inputs, received_deltas,
                   last_frame, manager>>

\* A faulty variant of StreamOtherEvent: the text-delta branch of handle_new_item
\* takes every event that is not a completed item.
StreamOtherEventAsDelta ==
    /\ pc = "stream_events" /\ Len(runner_events) < MaxEvents
    /\ runner_events' = Append(runner_events, [kind |-> "other"])
    /\ SendSucceeds(stream_response_frames(history, partial_response, latest_agent, FALSE))
    /\ UNCHANGED <<store, pair, entry, pc, mode, session, buffers, input_text, runner_input,
                   runner_agent, runner_final, runner_last_agent, runner_calls, audio_sent, pipeline_inputs,
                   received_deltas, last_frame, fault, manager>>

\* A faulty variant of StreamOtherEvent: an AgentUpdatedStreamEvent makes the new
\* agent the active one at once.
StreamOtherEventSwitchesAgent ==
    /\ pc = "stream_events" /\ Len(runner_events) < MaxEvents
    /\ runner_events' = Append(runner_events, [kind |-> "other"])
    /\ latest_agent' = "handoff_agent"
    /\ UNCHANGED <<store, pair, entry, pc, mode, peer, history, partial_response, buffers, input_text, runner_input,
                   runner_agent, runner_final, runner_last_agent, runner_calls, audio_sent, sent, last_sent, pipeline_inputs,
                   received_deltas, last_frame, fault, manager>>

\* lines 103-107 with any other event (an AgentUpdatedStreamEvent, another raw
\* response event): handle_new_item takes neither branch
StreamOtherEvent ==
    /\ pc = "stream_events" /\ Len(runner_events) < MaxEvents
    /\ runner_events' = Append(runner_events, [kind |-> "other"])
    /\ UNCHANGED <<store, pair, entry, pc, mode, peer, session, buffers, input_text, runner_input,
                   runner_agent, runner_final, runner_last_agent, runner_calls, audio_sent, sent, last_sent, pipeline_inputs,
                   received_deltas, last_frame, fault, manager>>

\* output.stream_events() raises: the agent runner failed
StreamRaises ==
    /\ pc = "stream_events"
    /\ Raise("runner")
    /\ UNCHANGED <<store, pair, entry, peer, session, turn, sent, last_sent, pipeline_inputs, received_deltas,
                   last_frame, manager>>

\* line 109: the stream is exhausted; text_output_complete(output, is_done=True)
StreamExhausted(to_input_list, last_agent) ==
    /\ pc = "stream_events"
    /\ runner_final' = to_input_list
    /\ runner_last_agent' = last_agent
    /\ partial_response' = text_output_complete_partial(partial_response)
    /\ latest_agent' = text_output_complete_agent(latest_agent, last_agent)
    /\ history' = text_output_complete_history(history, to_input_list)
    /\ \/ /\ SendSucceeds(<<text_output_complete_frame(history', latest_agent')>>)
          /\ IF mode = "text"
             THEN pc' = "done" /\ mode' = "idle"
             ELSE pc' = "audio_tail" /\ mode' = mode
          /\ UNCHANGED <<buffers, fault>>
       \/ /\ SendFails
          /\ Raise("send")
    /\ UNCHANGED <<store, pair, entry, input_text, runner_input, runner_agent, runner_calls,
                   runner_events, audio_sent, pipeline_inputs, received_deltas, last_frame,
                   manager>>

----------------------------------------------------------------------------
(* commit_audio after VoicePipeline.run was called (lines 334-359) *)

\* speech-to-text is done: the pipeline calls workflow.run(text)
PipelineTranscribed(text) ==
    /\ pc = "pipeline_run"
    /\ input_text' = text
    /\ pc' = "show_user_input"
    /\ UNCHANGED <<store, pair, entry, mode, peer, session, buffers, runner_input, runner_agent,
                   runner_final, runner_last_agent, runner_calls, runner_events, audio_sent, sent, last_sent, pipeline_inputs,
                   received_deltas, last_frame, fault, manager>>

\* the pipeline raises (speech-to-text or text-to-speech fails)
PipelineRaises ==
    /\ pc \in {"pipeline_run", "audio_tail"}
    /\ Raise("pipeline")
    /\ UNCHANGED <<store, pair, entry, peer, session, turn, sent, last_sent, pipeline_inputs, received_deltas,
                   last_frame, manager>>

\* Text deltas Workflow.run has yielded to the pipeline in this turn: the pipeline
\* synthesizes at most one audio event for each.
TextYielded == Len(SelectSeq(sent, IsTextDeltaFrame))

\* lines 345-346 with a VoiceStreamEventAudio: send_audio_chunk (lines 209-213)
SendAudioChunk(data) ==
    /\ mode = "voice" /\ pc \in {"stream_events", "audio_tail"}
    /\ audio_sent < TextYielded
    /\ audio_sent' = audio_sent + 1
    /\ \/ /\ SendSucceeds(<<transform_data_to_events(data)>>)
          /\ UNCHANGED <<pc, mode, buffers, fault>>
       \/ /\ SendFails
          /\ Raise("send")
    /\ UNCHANGED <<store, pair, entry, session, input_text, runner_input, runner_agent, runner_final, runner_last_agent,
                   runner_calls, runner_events, pipeline_inputs, received_deltas, last_frame,
                   manager>>

\* lines 348-351: output.stream() ends; the buffer is cleared and commit_audio
\* returns to its caller (websocket_endpoint line 161, or handle_message)
PipelineCompleted ==
    /\ pc = "audio_tail"
    /\ pc' = "done"
    /\ mode' = "idle"
    /\ self_audio_buffer' = commit_audio_clear_on_success(self_audio_buffer)
    /\ audio_buffer' = IF entry = "endpoint"
                       THEN endpoint_reset_audio_buffer(audio_buffer)
                       ELSE audio_buffer
    /\ UNCHANGED <<store, pair, entry, peer, session, has_audio_buffer, turn, sent, last_sent, pipeline_inputs,
                   received_deltas, last_frame, fault, manager>>

----------------------------------------------------------------------------
(* WebSocketManager, for a connection registered under client_id *)

client_id == "client_1"

\* what a call on the manager leaves: whether it raised, and the two tables
Tables(raised, active, pipelines) ==
    [raised |-> raised, active_connections |-> active, voice_pipelines |-> pipelines]

\* connect (lines 32-43) for any client id: websocket.accept() raises before
\* either table is written, or both tables get the id
connect(active, pipelines, id, failing) ==
    IF failing = "accept"
    THEN Tables(TRUE, active, pipelines)
    ELSE Tables(FALSE, active \cup {id}, pipelines \cup {id})

\* A faulty variant of disconnect: the entries are deleted without the
\* membership tests, and the first missing one raises KeyError.
disconnect_unguarded(active, pipelines, id) ==
    IF id \notin active THEN Tables(TRUE, active, pipelines)
    ELSE IF id \notin pipelines THEN Tables(TRUE, active \ {id}, pipelines)
    ELSE Tables(FALSE, active \ {id}, pipelines \ {id})

\* disconnect (lines 45-53) for any client id: each table is tested before the
\* entry is deleted
disconnect(active, pipelines, id) ==
    Tables(FALSE,
           IF id \in active THEN active \ {id} ELSE active,
           IF id \in pipelines THEN pipelines \ {id} ELSE pipelines)

\* connect (lines 32-43): accept, register the socket and a new WebsocketHelper
MgrConnect ==
    /\ entry = "manager" /\ pc \in {"accept", "closed"}
    /\ pc' = "recv"
    /\ peer' = "open"
    /\ active_connections' = connect(active_connections, voice_pipelines, client_id, "none").active_connections
    /\ voice_pipelines' = connect(active_connections, voice_pipelines, client_id, "none").voice_pipelines
    /\ history' = <<>>
    /\ latest_agent' = job_tracking_agent
    /\ partial_response' = <<>>
    /\ has_audio_buffer' = FALSE
    /\ self_audio_buffer' = <<>>
    /\ received_deltas' = <<>>
    /\ last_frame' = NoFrame
    /\ fault' = "none"
    /\ UNCHANGED <<store, pair, entry, mode, audio_buffer, turn, sent, last_sent, pipeline_inputs>>

\* A faulty variant of MgrDisconnect: the helper stays in voice_pipelines.
MgrDisconnectKeepsHelper ==
    /\ entry = "manager" /\ pc = "recv"
    /\ active_connections' = active_connections \ {client_id}
    /\ pc' = "closed"
    /\ UNCHANGED <<store, pair, entry, mode, peer, session, buffers, turn, sent, last_sent, pipeline_inputs,
                   received_deltas, last_frame, fault, voice_pipelines>>

\* disconnect (lines 45-53): the socket and the helper leave the tables, and the
\* helper's fields go with it
MgrDisconnect ==
    /\ entry = "manager" /\ pc = "recv"
    /\ ~disconnect(active_connections, voice_pipelines, client_id).raised
    /\ active_connections' = disconnect(active_connections, voice_pipelines, client_id).active_connections
    /\ voice_pipelines' = disconnect(active_connections, voice_pipelines, client_id).voice_pipelines
    /\ pc' = "closed"
    /\ history' = <<>>
    /\ latest_agent' = job_tracking_agent
    /\ partial_response' = <<>>
    /\ has_audio_buffer' = FALSE
    /\ self_audio_buffer' = <<>>
    /\ received_deltas' = <<>>
    /\ UNCHANGED <<store, pair, entry, mode, peer, audio_buffer, turn, sent, last_sent, pipeline_inputs,
                   last_frame, fault>>

\* handle_message is called with the text of a frame
MgrHandling == entry = "manager" /\ pc = "recv" /\ client_id \in voice_pipelines

\* data.get("type")
GetType(data) == IF "type" \in DOMAIN data THEN data.type ELSE "None"
\* data.get("inputs", [])
GetInputs(data) == IF "inputs" \in DOMAIN data THEN data.inputs ELSE <<>>
\* data.get("delta", "")
GetDelta(data) == IF "delta" \in DOMAIN data THEN data.delta ELSE <<>>

\* A faulty variant of update_history_history: the inputs are added to the history.
update_history_extends(h, inputs) == h \o inputs

\* update_history (lines 362-381): the history and the agent it leaves, and its frame
update_history_history(h, inputs) == inputs
update_history_agent(agent, reset_agent) == IF reset_agent THEN job_tracking_agent ELSE agent
update_history_frame(h, agent) == HistoryUpdated("history.update", h, agent)

\* lines 67-68, 81-94: a history.update message; a failing send is caught at line 380
MgrHandleHistoryUpdate(data) ==
    /\ MgrHandling
    /\ GetType(data) = "history.update"
    /\ last_frame' = data
    /\ pc' = "done"
    /\ history' = update_history_history(history, GetInputs(data))
    /\ latest_agent' = update_history_agent(latest_agent, GetResetAgent(data))
    /\ \/ /\ SendSucceeds(<<update_history_frame(history', latest_agent')>>)
          /\ UNCHANGED fault
       \/ /\ SendFails
          /\ fault' = "send"
    /\ UNCHANGED <<store, pair, entry, mode, partial_response, buffers, turn, pipeline_inputs,
                   received_deltas, manager>>

\* lines 69-70, 96-107 and append_audio (lines 287-300): a failing decode is caught at line 299
MgrHandleAudioAppend(data) ==
    /\ MgrHandling
    /\ GetType(data) = "input_audio_buffer.append"
    /\ MayAppend(received_deltas, GetDelta(data))
    /\ last_frame' = data
    /\ pc' = "done"
    /\ LET decoded == append_audio_decode(GetDelta(data))
       IN  /\ has_audio_buffer' = (has_audio_buffer \/ decoded.ok)
           /\ self_audio_buffer' = append_audio_buffer(self_audio_buffer, decoded)
           /\ IF decoded.ok
              THEN /\ received_deltas' = Append(received_deltas, GetDelta(data))
                   /\ UNCHANGED fault
              ELSE /\ fault' = "decode"
                   /\ UNCHANGED received_deltas
    /\ UNCHANGED <<store, pair, entry, mode, peer, session, audio_buffer, turn, sent, last_sent,
                   pipeline_inputs, manager>>

\* lines 71-72, 109-115 and commit_audio up to its first await (lines 302-342)
MgrHandleAudioCommit(data) ==
    /\ MgrHandling
    /\ GetType(data) = "input_audio_buffer.commit"
    /\ (has_audio_buffer /\ self_audio_buffer # <<>>) => Len(history) < MaxHistory
    /\ last_frame' = data
    /\ IF commit_audio_returns_early(has_audio_buffer, self_audio_buffer)
       THEN /\ pc' = "done"
            /\ UNCHANGED <<mode, pipeline_inputs>>
       ELSE /\ pipeline_inputs' = Append(pipeline_inputs, np_concatenate(self_audio_buffer))
            /\ pc' = "pipeline_run"
            /\ mode' = "voice"
    /\ UNCHANGED <<store, pair, entry, peer, session, buffers, turn, sent, last_sent, received_deltas, fault,
                   manager>>

\* lines 73-74: any other type, a missing type included
MgrHandleUnknown(data) ==
    /\ MgrHandling
    /\ GetType(data) \notin {"history.update", "input_audio_buffer.append",
                             "input_audio_buffer.commit"}
    /\ last_frame' = data
    /\ pc' = "done"
    /\ UNCHANGED <<store, pair, entry, mode, peer, session, buffers, turn, sent, last_sent, pipeline_inputs,
                   received_deltas, fault, manager>>

\* line 58 raises json.JSONDecodeError, caught at line 76
MgrHandleInvalidJson ==
    /\ MgrHandling
    /\ last_frame' = InvalidJson
    /\ fault' = "json"
    /\ pc' = "done"
    /\ UNCHANGED <<store, pair, entry, mode, peer, session, buffers, turn, sent, last_sent, pipeline_inputs,
                   received_deltas, manager>>

\* a message for a client that is not registered: every handler skips it
\* (lines 92, 105, 113)
MgrHandleUnregistered(data) ==
    /\ entry = "manager" /\ pc \in {"accept", "closed"} /\ client_id \notin voice_pipelines
    /\ last_frame' = data
    /\ UNCHANGED <<store, pair, entry, pc, mode, peer, session, buffers, turn, sent, last_sent,
                   pipeline_inputs, received_deltas, fault, manager>>

----------------------------------------------------------------------------

Next ==
    \/ Accept
    \/ \E message \in InboundFrames : RecvSync(message)
    \/ \E message \in InboundFrames : RecvNewText(message)
    \/ \E message \in InboundFrames : RecvAudioChunk(message)
    \/ \E message \in InboundFrames : RecvAudioComplete(message)
    \/ \E message \in InboundFrames : RecvUnclassified(message)
    \/ \E message \in InboundFrames : RecvKeyError(message)
    \/ RecvInvalidJson
    \/ RecvDisconnect
    \/ LoopBack
    \/ ShowUserInput
    \/ RunStreamed
    \/ \E item \in RunnerItems : StreamItemEvent(item)
    \/ \E delta \in TextDeltas : StreamTextDelta(delta)
    \/ StreamOtherEvent
    \/ StreamRaises
    \/ \E to_input_list \in FinalTranscripts(runner_input), last_agent \in Agents :
          StreamExhausted(to_input_list, last_agent)
    \/ \E text \in Transcripts : PipelineTranscribed(text)
    \/ PipelineRaises
    \/ \E data \in SynthesizedAudio : SendAudioChunk(data)
    \/ PipelineCompleted
    \/ MgrConnect
    \/ MgrDisconnect
    \/ \E data \in InboundFrames : MgrHandleHistoryUpdate(data)
    \/ \E data \in InboundFrames : MgrHandleAudioAppend(data)
    \/ \E data \in InboundFrames : MgrHandleAudioCommit(data)
    \/ \E data \in InboundFrames : MgrHandleUnknown(data)
    \/ MgrHandleInvalidJson
    \/ \E data \in InboundFrames : MgrHandleUnregistered(data)

Spec == Init /\ [][Next]_vars

\* The event loop keeps running the task of websocket_endpoint: a handler that
\* has returned is followed by the next receive_json (line 137), and a
\* receive_json on a socket whose client has gone raises (line 138).
FairSpec ==
    /\ Spec
    /\ WF_vars(LoopBack)
    /\ WF_vars(RecvDisconnect /\ peer = "gone")

----------------------------------------------------------------------------
(* Two concurrent calls of websocket_endpoint.  Objects are kept by identity, *)
(* so that a mutation through one reference is seen through every other.    *)

\* A faulty variant of new_websocket_helper: one helper, created at module level,
\* serves every call.
module_level_helper(call) == "conn_1"

\* line 129: each call constructs a WebsocketHelper of its own
new_websocket_helper(call) == call
\* line 130: each call binds its local audio_buffer to a new list
new_audio_buffer(call) == call

\* the objects a call's locals connection and audio_buffer are bound to
HelperOf(call) ==
    IF tasks[call].connection = "None" THEN NoHelper ELSE helpers[tasks[call].connection]
BufferOf(call) ==
    IF tasks[call].audio_buffer = "None" THEN <<>> ELSE lists[tasks[call].audio_buffer]

\* the frames the two clients send
PairFrames ==
    {[type |-> "history.update", inputs |-> <<>>, reset_agent |-> TRUE],
     [type |-> "history.update", inputs |-> <<ClientUser>>],
     [type |-> "history.update", inputs |-> <<ClientUserNoContent>>],
     [type |-> "input_audio_buffer.append", delta |-> DeltaOne],
     CommitFrame}

\* line 137 in call: receive_json returns a frame
PairReceiving(call) == tasks[call].pc = "recv" /\ tasks[call].peer = "open"

\* the task when the handling of its frame is over: back at line 137, or out of
\* websocket_endpoint; the locals of the handler are gone
PairHandled(task, pc_after) ==
    [task EXCEPT !.pc = pc_after, !.mode = "idle", !.user_input = <<>>, !.out = <<>>]

\* the task after an exception left Workflow.run or the pipeline (see Raise)
PairRaise(task) ==
    IF task.mode = "voice" THEN PairHandled(task, "recv") ELSE PairHandled(task, "closed")

\* websocket.send_text in call: the frames are written, or it raises
PairSent(task, frames) ==
    [task EXCEPT !.out = task.out \o [i \in 1..Len(frames) |-> Header(frames[i])]]
PairSendFailed(task) == PairRaise([task EXCEPT !.peer = "gone"])

\* commit_audio lines 351 and 357-359 with websocket_endpoint line 161
PairClearBuffer(call, was_voice) ==
    IF was_voice
    THEN lists' = [lists EXCEPT ![tasks[call].audio_buffer] =
                       endpoint_reset_audio_buffer(commit_audio_clear_on_error(@))]
    ELSE UNCHANGED lists

\* lines 128-133
PairAccept(call) ==
    /\ tasks[call].pc = "accept"
    /\ LET helper == new_websocket_helper(call)
           buffer == new_audio_buffer(call)
       IN  /\ tasks' = [tasks EXCEPT ![call] = [@ EXCEPT !.pc = "recv", !.connection = helper,
                                                       !.audio_buffer = buffer]]
           /\ helpers' = [helpers EXCEPT ![helper] =
                             [history |-> <<>>, latest_agent |-> job_tracking_agent,
                              partial_response |-> <<>>]]
           /\ lists' = [lists EXCEPT ![buffer] = <<>>]
    /\ actor' = call
    /\ UNCHANGED <<one, store, store>>

\* lines 143-146
PairRecvSync(call, message) ==
    /\ PairReceiving(call)
    /\ is_sync_message(message)
    /\ tasks' = [tasks EXCEPT ![call] = PairHandled(@, "recv")]
    /\ helpers' = [helpers EXCEPT ![tasks[call].connection] =
                      [@ EXCEPT !.history = message.inputs,
                                !.latest_agent = IF GetResetAgent(message)
                                                 THEN job_tracking_agent ELSE @]]
    /\ actor' = call
    /\ UNCHANGED <<one, store, lists>>

\* lines 147-149, up to the first await of Workflow.run
PairRecvNewText(call, message) ==
    /\ PairReceiving(call)
    /\ ~is_sync_message(message) /\ is_new_text_message(message)
    /\ helpers' = [helpers EXCEPT ![tasks[call].connection] =
                      [@ EXCEPT !.history = process_inputs_history(message)]]
    /\ tasks' = [tasks EXCEPT ![call] =
                    IF process_inputs_raises(message)
                    THEN PairHandled(@, "closed")
                    ELSE [@ EXCEPT !.pc = "show_user_input", !.mode = "text",
                                   !.user_input = process_inputs_content(message)]]
    /\ actor' = call
    /\ UNCHANGED <<one, store, lists>>

\* lines 153-154
PairRecvAudioChunk(call, message) ==
    /\ PairReceiving(call)
    /\ ~is_sync_message(message) /\ ~is_new_text_message(message) /\ is_new_audio_chunk(message)
    /\ BufferOf(call) = <<>>
    /\ tasks' = [tasks EXCEPT ![call] = PairHandled(@, "recv")]
    /\ lists' = [lists EXCEPT ![tasks[call].audio_buffer] =
                    endpoint_append_chunk(@, extract_audio_chunk(message))]
    /\ actor' = call
    /\ UNCHANGED <<one, store, helpers>>

\* lines 157-161, up to VoicePipeline.run
PairRecvAudioComplete(call, message) ==
    /\ PairReceiving(call)
    /\ ~is_sync_message(message) /\ ~is_new_text_message(message)
    /\ ~is_new_audio_chunk(message) /\ is_audio_complete(message)
    /\ BufferOf(call) # <<>> => Len(HelperOf(call).history) < MaxHistory
    /\ tasks' = [tasks EXCEPT ![call] =
                    IF commit_audio_returns_early(TRUE, BufferOf(call))
                    THEN PairHandled(@, "recv")
                    ELSE [@ EXCEPT !.pc = "pipeline_run", !.mode = "voice"]]
    /\ actor' = call
    /\ UNCHANGED <<one, store, helpers, lists>>

\* line 138: receive_json raises WebSocketDisconnect
PairRecvDisconnect(call) ==
    /\ tasks[call].pc = "recv"
    /\ tasks' = [tasks EXCEPT ![call] = PairHandled([@ EXCEPT !.peer = "gone"], "closed")]
    /\ actor' = call
    /\ UNCHANGED <<one, store, helpers, lists>>

\* speech-to-text is done: the pipeline calls workflow.run(text)
PairPipelineTranscribed(call, text) ==
    /\ tasks[call].pc = "pipeline_run"
    /\ tasks' = [tasks EXCEPT ![call] = [@ EXCEPT !.pc = "show_user_input", !.user_input = text]]
    /\ actor' = call
    /\ UNCHANGED <<one, store, helpers, lists>>

\* the pipeline or the runner raises
PairTurnRaises(call) ==
    /\ tasks[call].pc \in {"pipeline_run", "stream_events", "audio_tail"}
    /\ tasks' = [tasks EXCEPT ![call] = PairRaise(@)]
    /\ PairClearBuffer(call, tasks[call].mode = "voice")
    /\ actor' = call
    /\ UNCHANGED <<one, store, helpers>>

\* Workflow.run lines 94-101
PairShowUserInput(call) ==
    /\ tasks[call].pc = "show_user_input"
    /\ LET h == show_user_input_history(HelperOf(call).history, tasks[call].user_input)
       IN  /\ helpers' = [helpers EXCEPT ![tasks[call].connection] = [@ EXCEPT !.history = h]]
           /\ \/ /\ tasks' = [tasks EXCEPT ![call] =
                        [PairSent(@, <<show_user_input_frame(h, HelperOf(call).latest_agent)>>)
                            EXCEPT !.pc = "stream_events"]]
                 /\ UNCHANGED lists
              \/ /\ tasks' = [tasks EXCEPT ![call] = PairSendFailed(@)]
                 /\ PairClearBuffer(call, tasks[call].mode = "voice")
    /\ actor' = call
    /\ UNCHANGED <<one, store, store>>

\* Workflow.run lines 103-107 with a text delta, and stream_response
PairStreamTextDelta(call, delta) ==
    /\ tasks[call].pc = "stream_events"
    /\ Len(HelperOf(call).partial_response) < MaxEvents
    /\ LET helper == HelperOf(call)
           partial1 == stream_response_partial(helper.partial_response, delta, FALSE)
           history1 == stream_response_history(helper.history, helper.partial_response, delta, FALSE)
           frames1 == stream_response_frames(history1, partial1, helper.latest_agent, FALSE)
       IN  /\ helpers' = [helpers EXCEPT ![tasks[call].connection] =
                             [@ EXCEPT !.partial_response = partial1, !.history = history1]]
           /\ \/ /\ tasks' = [tasks EXCEPT ![call] =
                        PairSent(@, frames1)]
                 /\ UNCHANGED lists
              \/ /\ tasks' = [tasks EXCEPT ![call] = PairSendFailed(@)]
                 /\ PairClearBuffer(call, tasks[call].mode = "voice")
    /\ actor' = call
    /\ UNCHANGED <<one, store, store>>

\* Workflow.run line 109: text_output_complete
PairStreamExhausted(call, to_input_list, last_agent) ==
    /\ tasks[call].pc = "stream_events"
    /\ LET helper == HelperOf(call)
           h == text_output_complete_history(helper.history, to_input_list)
           agent == text_output_complete_agent(helper.latest_agent, last_agent)
       IN  /\ helpers' = [helpers EXCEPT ![tasks[call].connection] =
                             [history |-> h, latest_agent |-> agent,
                              partial_response |-> text_output_complete_partial(helper.partial_response)]]
           /\ \/ /\ tasks' = [tasks EXCEPT ![call] =
                        IF tasks[call].mode = "voice"
                        THEN [PairSent(@, <<text_output_complete_frame(h, agent)>>)
                                 EXCEPT !.pc = "audio_tail"]
                        ELSE PairHandled(@, "recv")]
                 /\ UNCHANGED lists
              \/ /\ tasks' = [tasks EXCEPT ![call] = PairSendFailed(@)]
                 /\ PairClearBuffer(call, tasks[call].mode = "voice")
    /\ actor' = call
    /\ UNCHANGED <<one, store, store>>

\* commit_audio lines 345-346: an audio event of the pipeline is sent, at most
\* one for each text delta of the turn
IsAudioDeltaFrame(frame) == frame.type = "response.audio.delta"
PairSendAudioChunk(call, data) ==
    /\ tasks[call].pc = "audio_tail"
    /\ Len(SelectSeq(tasks[call].out, IsAudioDeltaFrame))
          < Len(SelectSeq(tasks[call].out, IsTextDeltaFrame))
    /\ \/ /\ tasks' = [tasks EXCEPT ![call] = PairSent(@, <<transform_data_to_events(data)>>)]
          /\ UNCHANGED lists
       \/ /\ tasks' = [tasks EXCEPT ![call] = PairSendFailed(@)]
          /\ PairClearBuffer(call, TRUE)
    /\ actor' = call
    /\ UNCHANGED <<one, store, helpers>>

\* commit_audio lines 348-351 and websocket_endpoint line 161
PairPipelineCompleted(call) ==
    /\ tasks[call].pc = "audio_tail"
    /\ tasks' = [tasks EXCEPT ![call] = PairHandled(@, "recv")]
    /\ PairClearBuffer(call, TRUE)
    /\ actor' = call
    /\ UNCHANGED <<one, store, helpers>>

InitPair == Init /\ entry = "endpoint"

NextPair ==
    \E call \in Conns :
        \/ PairAccept(call)
        \/ \E message \in PairFrames : PairRecvSync(call, message)
        \/ \E message \in PairFrames : PairRecvNewText(call, message)
        \/ \E message \in PairFrames : PairRecvAudioChunk(call, message)
        \/ \E message \in PairFrames : PairRecvAudioComplete(call, message)
        \/ PairRecvDisconnect(call)
        \/ \E text \in Transcripts : PairPipelineTranscribed(call, text)
        \/ PairTurnRaises(call)
        \/ PairShowUserInput(call)
        \/ \E delta \in TextDeltas : PairStreamTextDelta(call, delta)
        \/ \E to_input_list \in FinalTranscripts(HelperOf(call).history), last_agent \in Agents :
              PairStreamExhausted(call, to_input_list, last_agent)
        \/ \E data \in SynthesizedAudio : PairSendAudioChunk(call, data)
        \/ PairPipelineCompleted(call)

SpecPair == InitPair /\ [][NextPair]_vars

----------------------------------------------------------------------------
(* WebsocketHelper used directly: every method that writes a history.updated *)
(* frame, called in any order on one helper.  sent holds the headers of the  *)
(* frames written by the last call.                                          *)

\* text_output_complete(output) with is_done left False (lines 183-193)
text_output_complete_sync_frame(h, agent) ==
    [type |-> "history.updated", inputs |-> h, sync |-> TRUE, agent_name |-> agent]

\* send_fallback_response (lines 222-238)
fallback_response_text(user_input) ==
    <<"I heard you say: '">> \o user_input
        \o <<"'. I'm a job application tracking assistant. How can I help you with your job search?">>
send_fallback_response_history(h, user_input) ==
    Append(h, AssistantItem(fallback_response_text(user_input)))
send_fallback_response_frame(h, agent) == HistoryUpdated("assistant.text_response", h, agent)

\* generate_audio_response (lines 248-285): response.content of the speech request
SpeechContent == {<<1, 0>>}
generate_audio_response_frame(content) ==
    [type |-> "response.audio.delta", delta |-> b64encode(content),
     output_index |-> 0, content_index |-> 0, item_id |-> "", response_id |-> "", event_id |-> ""]

helper_rest == <<store, pair, entry, pc, mode, peer, buffers, turn, pipeline_inputs, received_deltas,
                 last_frame, fault, manager>>

\* what a call leaves in sent and last_sent: the frames it wrote
HelperWrote(frames) ==
    /\ sent' = [i \in 1..Len(frames) |-> Header(frames[i])]
    /\ last_sent' = IF frames = <<>> THEN last_sent ELSE Last(frames)

HelperShowUserInput(user_input) ==
    /\ Len(history) < MaxHistory
    /\ history' = show_user_input_history(history, user_input)
    /\ HelperWrote(<<show_user_input_frame(history', latest_agent)>>)
    /\ UNCHANGED <<helper_rest, latest_agent, partial_response>>

HelperStreamResponse(new_tokens, is_text) ==
    /\ Len(partial_response) < MaxEvents
    /\ partial_response' = stream_response_partial(partial_response, new_tokens, is_text)
    /\ history' = stream_response_history(history, partial_response, new_tokens, is_text)
    /\ HelperWrote(stream_response_frames(history', partial_response', latest_agent, is_text))
    /\ UNCHANGED <<helper_rest, latest_agent>>

\* handle_new_item with a RunItemStreamEvent (a text delta goes to stream_response)
HelperHandleNewItem(item) ==
    /\ Len(history) < MaxHistory
    /\ history' = handle_new_item_history(history, item)
    /\ HelperWrote(<<handle_new_item_frame(history', latest_agent)>>)
    /\ UNCHANGED <<helper_rest, latest_agent, partial_response>>

HelperTextOutputComplete(is_done, to_input_list, last_agent) ==
    /\ Len(history) < MaxHistory
    /\ IF is_done
       THEN /\ partial_response' = text_output_complete_partial(partial_response)
            /\ latest_agent' = text_output_complete_agent(latest_agent, last_agent)
            /\ history' = text_output_complete_history(history, to_input_list)
            /\ HelperWrote(<<text_output_complete_frame(history', latest_agent')>>)
       ELSE /\ HelperWrote(<<text_output_complete_sync_frame(history, latest_agent)>>)
            /\ UNCHANGED <<history, latest_agent, partial_response>>
    /\ UNCHANGED helper_rest

\* send_fallback_response, generate_audio_response included: the speech request
\* gives audio, or it raises and only audio.done is written
HelperSendFallbackResponse(user_input, speech) ==
    /\ Len(history) < MaxHistory
    /\ history' = send_fallback_response_history(history, user_input)
    /\ HelperWrote(<<send_fallback_response_frame(history', latest_agent)>>
                   \o (IF speech = <<>> THEN <<>> ELSE <<generate_audio_response_frame(speech)>>)
                   \o <<AudioDone>>)
    /\ UNCHANGED <<helper_rest, latest_agent, partial_response>>

HelperUpdateHistory(inputs, reset_agent) ==
    /\ history' = update_history_history(history, inputs)
    /\ latest_agent' = update_history_agent(latest_agent, reset_agent)
    /\ HelperWrote(<<update_history_frame(history', latest_agent')>>)
    /\ UNCHANGED <<helper_rest, partial_response>>

InitHelper == Init /\ entry = "endpoint"

NextHelper ==
    \/ \E user_input \in Transcripts : HelperShowUserInput(user_input)
    \/ \E new_tokens \in TextDeltas, is_text \in BOOLEAN : HelperStreamResponse(new_tokens, is_text)
    \/ \E item \in RunnerItems : HelperHandleNewItem(item)
    \/ \E is_done \in BOOLEAN, to_input_list \in FinalTranscripts(history), last_agent \in Agents :
          HelperTextOutputComplete(is_done, to_input_list, last_agent)
    \/ \E user_input \in Transcripts, speech \in SpeechContent \cup {<<>>} :
          HelperSendFallbackResponse(user_input, speech)
    \/ \E inputs \in InputLists, reset_agent \in BOOLEAN : HelperUpdateHistory(inputs, reset_agent)

SpecHelper == InitHelper /\ [][NextHelper]_vars

----------------------------------------------------------------------------
(* The tools of the agent (services/agent_config.py) and the database        *)
(* operations behind them (services/database.py).  Strings whose characters  *)
(* matter (company, role title, reference) are sequences of characters.  A   *)
(* call of a Python function gives [raised |-> FALSE, value |-> v] or          *)
(* [raised |-> TRUE, error |-> e], and what it leaves in the collections.     *)

DEFAULT_USER_ID == "507f1f77bcf86cd799439011"
DedupDays == 14
None == "None"
\* None where the value would be a document or a string of characters
NoDocument == <<>>

Returns(v) == [raised |-> FALSE, value |-> v]
Throws(e) == [raised |-> TRUE, error |-> e]

\* str.lower() and str.strip()
LowerChar(c) ==
    CASE c = "A" -> "a" [] c = "D" -> "d" [] c = "E" -> "e" [] c = "Q" -> "q" [] OTHER -> c
lower(s) == [i \in 1..Len(s) |-> LowerChar(s[i])]
RECURSIVE strip(_)
strip(s) ==
    IF s = <<>> THEN s
    ELSE IF s[1] = " " THEN strip(Tail(s))
    ELSE IF s[Len(s)] = " " THEN strip(ButLast(s))
    ELSE s

\* ObjectId(s) and str(oid); insert_one gives every document an _id of its own
ObjectId(s) == [oid |-> s]
StrOfObjectId(o) == o.oid
NewObjectId(collection, documents) == ObjectId(<<collection, Len(documents) + 1>>)

\* get_user_id (lines 60-64): a 24-character hexadecimal string is kept, anything
\* else gives the default user
HexUserIds == {DEFAULT_USER_ID, "64b7f0c2a1d3e4f5a6b7c8d9"}
get_user_id(user_id) == IF user_id \in HexUserIds THEN user_id ELSE DEFAULT_USER_ID

\* How Python binds the arguments of a call: TypeError for a keyword that is not
\* a parameter, for too many positional arguments, or for a parameter without a
\* default that gets no value.
BindingRaises(signature, positional, keywords) ==
    \/ positional > Len(signature.parameters)
    \/ \E k \in keywords : \A i \in 1..Len(signature.parameters) : signature.parameters[i] # k
    \/ \E i \in 1..signature.required :
          i > positional /\ signature.parameters[i] \notin keywords

update_application_signature ==
    [parameters |-> <<"app_id", "update_data", "user_id">>, required |-> 3]
update_application_status_signature ==
    [parameters |-> <<"app_id", "status_stage", "user_id">>, required |-> 3]

\* the MongoDB operations of a call; one of them may fail (the server is away)
DbOperations == {"applications.find_one", "applications.insert_one", "applications.update_one",
                 "applications.find", "applications.aggregate", "notes.insert_one",
                 "followups.insert_one"}
DbError(operation) == <<"ServerSelectionTimeoutError", operation>>

\* the $regex operator with options "i": the pattern is searched in the text;
\* of the pattern language, literal characters and "." (any character) are modelled
RegexMatchesAt(pattern, text, offset) ==
    /\ offset + Len(pattern) <= Len(text)
    /\ \A i \in 1..Len(pattern) :
          pattern[i] = "." \/ LowerChar(pattern[i]) = LowerChar(text[offset + i])
RegexSearch(pattern, text) == \E offset \in 0..Len(text) : RegexMatchesAt(pattern, text, offset)

\* find_one with sort=[("created_at", -1)]: documents are kept in the order of
\* their insertion, which is the order of created_at
LatestOf(documents) == IF documents = <<>> THEN NoDocument ELSE documents[Len(documents)]
FirstOf(documents) == IF documents = <<>> THEN NoDocument ELSE documents[1]

\* serialize_document (lines 44-58): every ObjectId becomes its string
serialize_document(doc) ==
    IF doc = NoDocument THEN doc
    ELSE [k \in DOMAIN doc |-> IF k \in {"_id", "user_id", "application_id"}
                               THEN StrOfObjectId(doc[k]) ELSE doc[k]]

\* find_recent_application (lines 125-138)
find_recent_application(apps, user_id, company_norm, role_title_norm, days, today) ==
    LET threshold_date == today - days
        Matches(doc) == /\ doc.user_id = ObjectId(user_id)
                        /\ doc.company_norm = company_norm
                        /\ doc.role_title_norm = role_title_norm
                        /\ doc.created_at >= threshold_date
    IN  FirstOf(SelectSeq(apps, Matches))

\* update_application (lines 140-150): $set of update_data on the document of
\* that id and user
update_application(apps, app_id, update_data, user_id, today) ==
    [i \in 1..Len(apps) |->
        IF apps[i]._id = app_id /\ apps[i].user_id = ObjectId(user_id)
        THEN [k \in DOMAIN apps[i] |->
                 IF k = "updated_at" THEN today
                 ELSE IF k \in DOMAIN update_data THEN update_data[k] ELSE apps[i][k]]
        ELSE apps[i]]

\* create_application (lines 112-123): the document that is inserted
create_application(apps, app_data, today) ==
    [_id |-> NewObjectId("applications", apps), user_id |-> app_data.user_id,
     company |-> app_data.company, role_title |-> app_data.role_title,
     status_stage |-> app_data.status_stage,
     company_norm |-> app_data.company_norm, role_title_norm |-> app_data.role_title_norm,
     created_at |-> today, updated_at |-> today]

\* create_application_with_dedup (lines 66-110)
\* lines 84-110 of it: what follows the answer of find_recent_application
create_application_with_dedup_write(apps, application_data, recent_app, today, failing) ==
    LET valid_user_id == get_user_id(None)
        company_norm == strip(lower(application_data.company))
        role_title_norm == strip(lower(application_data.role_title))
        Failed(e) == [raised |-> TRUE, error |-> <<"Failed to create application: ", e>>,
                      applications |-> apps]
    IN  IF recent_app # NoDocument
        THEN IF BindingRaises(update_application_signature, 0, {"app_id", "updates", "user_id"})
             THEN Failed(<<"update_application() got an unexpected keyword argument ", "updates">>)
             ELSE IF failing = "applications.update_one" THEN Failed(DbError(failing))
             ELSE [raised |-> FALSE,
                   value |-> [application_id |-> StrOfObjectId(recent_app._id),
                              message |-> <<"Updated existing ", role_title_norm,
                                            " position at ", company_norm>>,
                              updated |-> TRUE],
                   applications |-> update_application(apps, recent_app._id, application_data,
                                                       valid_user_id, today)]
        ELSE IF failing = "applications.insert_one" THEN Failed(DbError(failing))
        ELSE LET doc == create_application(apps,
                            [company |-> application_data.company,
                             role_title |-> application_data.role_title,
                             status_stage |-> application_data.status_stage,
                             company_norm |-> company_norm, role_title_norm |-> role_title_norm,
                             user_id |-> ObjectId(valid_user_id)], today)
             IN  [raised |-> FALSE,
                  value |-> [application_id |-> StrOfObjectId(doc._id),
                             message |-> <<"Added ", role_title_norm, " position at ", company_norm>>,
                             updated |-> FALSE],
                  applications |-> Append(apps, doc)]

\* lines 66-82 of it: the question to find_recent_application, and the rest
create_application_with_dedup(apps, application_data, today, failing) ==
    IF failing = "applications.find_one"
    THEN [raised |-> TRUE,
          error |-> <<"Failed to create application: ", DbError(failing)>>,
          applications |-> apps]
    ELSE create_application_with_dedup_write(apps, application_data,
             find_recent_application(apps, get_user_id(None),
                                     strip(lower(application_data.company)),
                                     strip(lower(application_data.role_title)),
                                     DedupDays, today),
             today, failing)

\* add_note_to_application (lines 177-189): the document that is inserted
add_note_to_application(all_notes, application_id, content, user_id, today) ==
    [_id |-> NewObjectId("notes", all_notes), application_id |-> ObjectId(application_id),
     user_id |-> ObjectId(get_user_id(user_id)), content |-> content, created_at |-> today]

\* schedule_followup (lines 191-221): datetime.fromisoformat or the fall-back
\* for a relative date, and the document that is inserted
IsoDates == {"2024-01-09"}
fromisoformat(due_at) == IF due_at \in IsoDates THEN Returns(9) ELSE Throws("ValueError")
due_date_of(due_at, today) ==
    IF ~fromisoformat(due_at).raised THEN fromisoformat(due_at).value
    ELSE IF due_at = "next friday" THEN today + 7
    ELSE IF due_at = "tomorrow" THEN today + 1
    ELSE today + 7
schedule_followup(all_followups, application_id, due_at, channel, user_id, note, today) ==
    LET followup_data ==
            [_id |-> NewObjectId("followups", all_followups),
             application_id |-> ObjectId(application_id),
             user_id |-> ObjectId(get_user_id(user_id)),
             due_at |-> due_date_of(due_at, today), channel |-> channel,
             status |-> "pending", created_at |-> today, updated_at |-> today]
    IN  IF note # None
        THEN [k \in DOMAIN followup_data \cup {"note"} |->
                 IF k = "note" THEN note ELSE followup_data[k]]
        ELSE followup_data

\* find_application_by_reference (lines 156-175)
find_application_by_reference(apps, application_ref, user_id) ==
    LET valid_user_id == get_user_id(user_id)
        ByCompany(doc) == /\ doc.user_id = ObjectId(valid_user_id)
                          /\ RegexSearch(application_ref, doc.company)
        ByRoleTitle(doc) == /\ doc.user_id = ObjectId(valid_user_id)
                            /\ RegexSearch(application_ref, doc.role_title)
        by_company == LatestOf(SelectSeq(apps, ByCompany))
    IN  IF by_company # NoDocument THEN serialize_document(by_company)
        ELSE serialize_document(LatestOf(SelectSeq(apps, ByRoleTitle)))

\* search_applications (lines 223-249) with get_time_range (lines 251-278) for
\* the calendar weeks; day 0 is a Monday; sorted by created_at, newest first
weekday(today) == today % 7
get_time_range(time_range, today) ==
    IF time_range = "last_week"
    THEN [start |-> today - (weekday(today) + 7), end |-> today - weekday(today)]
    ELSE [start |-> today - weekday(today), end |-> today - weekday(today) + 7]
NewestFirst(documents) == [i \in 1..Len(documents) |-> documents[Len(documents) + 1 - i]]
search_applications(apps, criteria, user_id, today) ==
    LET valid_user_id == get_user_id(user_id)
        Matches(doc) ==
            /\ doc.user_id = ObjectId(valid_user_id)
            /\ "status_stage" \in DOMAIN criteria => doc.status_stage = criteria.status_stage
            /\ "company" \in DOMAIN criteria => doc.company = criteria.company
            /\ "time_range" \in DOMAIN criteria =>
                  /\ doc.created_at >= get_time_range(criteria.time_range, today).start
                  /\ doc.created_at < get_time_range(criteria.time_range, today).end
        found == NewestFirst(SelectSeq(apps, Matches))
    IN  [i \in 1..Len(found) |-> serialize_document(found[i])]

\* the count of documents per status_stage (the $group stage of lines 284-297,
\* the loops at agent_config.py lines 254-259 and 303-308)
StatusCounts(documents) ==
    [status \in {documents[i].status_stage : i \in 1..Len(documents)} |->
        Cardinality({i \in 1..Len(documents) : documents[i].status_stage = status})]
CountOf(status_counts, status) ==
    IF status \in DOMAIN status_counts THEN status_counts[status] ELSE 0

\* get_application_summary (lines 280-321); success_rate in tenths of a percent
get_application_summary(apps, user_id) ==
    LET valid_user_id == get_user_id(user_id)
        Mine(doc) == doc.user_id = ObjectId(valid_user_id)
        status_counts == StatusCounts(SelectSeq(apps, Mine))
        total == Len(SelectSeq(apps, Mine))
        success_count == CountOf(status_counts, "offer")
    IN  [total |-> total, status_breakdown |-> status_counts,
         active_applications |-> CountOf(status_counts, "applied")
                                 + CountOf(status_counts, "hr_screen")
                                 + CountOf(status_counts, "tech_screen")
                                 + CountOf(status_counts, "onsite"),
         success_rate |-> IF total > 0 THEN (2 * success_count * 1000 + total) \div (2 * total)
                          ELSE 0,
         offers |-> success_count]

\* ---- the tools (agent_config.py) ----
\* What a tool call leaves: its result string (the JSON object as a record, or
\* the exception that leaves the tool) and the three collections.
Db == [applications |-> applications, notes |-> notes, followups |-> followups]
Outcome(result, apps, all_notes, all_followups) ==
    [result |-> result, applications |-> apps, notes |-> all_notes, followups |-> all_followups]

\* a variant in which the exception leaves the tool
tool_except_reraises(e) == [raised |-> TRUE, error |-> e]

\* the except clause of every tool (lines 102-106, 142-146, 177-181, 214-218,
\* 278-282, 330-334, 349-353)
tool_except(e) == [raised |-> FALSE, success |-> FALSE, error |-> e]

NotFound(application_ref) ==
    [raised |-> FALSE, success |-> FALSE,
     error |-> <<"No application found for ", application_ref>>]

\* add_job_application (lines 39-106)
add_job_application(db, company, role_title, status_stage, note, due_at, channel, today, failing) ==
    LET app_data == [company |-> company, role_title |-> role_title,
                     status_stage |-> status_stage]
        result == create_application_with_dedup(db.applications, app_data, today, failing)
        notes_after == IF note # None
                       THEN Append(db.notes, add_note_to_application(db.notes,
                                       result.value.application_id, note, None, today))
                       ELSE db.notes
        followups_after == IF due_at # None /\ channel # None
                           THEN Append(db.followups, schedule_followup(db.followups,
                                           result.value.application_id, due_at, channel,
                                           None, None, today))
                           ELSE db.followups
    IN  IF result.raised
        THEN Outcome(tool_except(result.error), result.applications, db.notes, db.followups)
        ELSE IF note # None /\ failing = "notes.insert_one"
        THEN Outcome(tool_except(DbError(failing)), result.applications, db.notes, db.followups)
        ELSE IF due_at # None /\ channel # None /\ failing = "followups.insert_one"
        THEN Outcome(tool_except(DbError(failing)), result.applications, notes_after, db.followups)
        ELSE Outcome([raised |-> FALSE, success |-> TRUE, message |-> result.value.message,
                      application_id |-> result.value.application_id,
                      updated |-> result.value.updated],
                     result.applications, notes_after, followups_after)

\* update_application_status_by_reference (lines 108-146); update_application_status
\* (database.py lines 152-154) is called with two positional arguments
update_application_status_by_reference(db, application_ref, status_stage, today, failing) ==
    LET application == find_application_by_reference(db.applications, application_ref, None)
        Same(result) == Outcome(result, db.applications, db.notes, db.followups)
    IN  IF failing = "applications.find_one" THEN Same(tool_except(DbError(failing)))
        ELSE IF application = NoDocument THEN Same(NotFound(application_ref))
        ELSE IF BindingRaises(update_application_status_signature, 2, {})
        THEN Same(tool_except(<<"update_application_status() missing 1 required positional argument: ",
                               "user_id">>))
        ELSE IF failing = "applications.update_one" THEN Same(tool_except(DbError(failing)))
        ELSE Outcome([raised |-> FALSE, success |-> TRUE,
                      message |-> <<"Status updated to ", status_stage, " for ",
                                    application.company, application.role_title>>,
                      application_id |-> application._id],
                     update_application(db.applications, ObjectId(application._id),
                                        [status_stage |-> status_stage], None, today),
                     db.notes, db.followups)

\* add_note_to_application_by_reference (lines 148-181)
add_note_to_application_by_reference(db, application_ref, note, today, failing) ==
    LET application == find_application_by_reference(db.applications, application_ref, None)
        Same(result) == Outcome(result, db.applications, db.notes, db.followups)
        doc == add_note_to_application(db.notes, application._id, note, None, today)
    IN  IF failing = "applications.find_one" THEN Same(tool_except(DbError(failing)))
        ELSE IF application = NoDocument THEN Same(NotFound(application_ref))
        ELSE IF failing = "notes.insert_one" THEN Same(tool_except(DbError(failing)))
        ELSE Outcome([raised |-> FALSE, success |-> TRUE,
                      message |-> <<"Note added for ", application.company,
                                    application.role_title>>,
                      application_id |-> application._id,
                      note_id |-> StrOfObjectId(doc._id)],
                     db.applications, Append(db.notes, doc), db.followups)

\* schedule_followup_by_reference (lines 183-218): the note is the fourth
\* positional argument of schedule_followup, whose fourth parameter is user_id
schedule_followup_by_reference(db, application_ref, due_at, channel, note, today, failing) ==
    LET application == find_application_by_reference(db.applications, application_ref, None)
        Same(result) == Outcome(result, db.applications, db.notes, db.followups)
        doc == schedule_followup(db.followups, application._id, due_at, channel,
                                 note, None, today)
    IN  IF failing = "applications.find_one" THEN Same(tool_except(DbError(failing)))
        ELSE IF application = NoDocument THEN Same(NotFound(application_ref))
        ELSE IF failing = "followups.insert_one" THEN Same(tool_except(DbError(failing)))
        ELSE Outcome([raised |-> FALSE, success |-> TRUE,
                      message |-> <<"Follow-up scheduled for ", application.company,
                                    " on ", due_at>>,
                      application_id |-> application._id,
                      followup_id |-> StrOfObjectId(doc._id)],
                     db.applications, db.notes, Append(db.followups, doc))

\* search_job_applications (lines 220-282)
search_job_applications(db, status_stage, company, time_range, today, failing) ==
    LET keys == (IF status_stage # None THEN {"status_stage"} ELSE {})
                \cup (IF company # NoDocument THEN {"company"} ELSE {})
                \cup (IF time_range # None THEN {"time_range"} ELSE {})
        criteria == [k \in keys |-> CASE k = "status_stage" -> status_stage
                                      [] k = "company" -> company
                                      [] k = "time_range" -> time_range]
        found == search_applications(db.applications, criteria, None, today)
        Same(result) == Outcome(result, db.applications, db.notes, db.followups)
    IN  IF failing = "applications.find" THEN Same(tool_except(DbError(failing)))
        ELSE IF found = <<>>
        THEN Same([raised |-> FALSE, success |-> TRUE,
                   message |-> "No applications found matching your criteria.",
                   applications |-> <<>>, count |-> 0])
        ELSE Same([raised |-> FALSE, success |-> TRUE, message |-> "Found",
                   applications |-> found, count |-> Len(found),
                   status_breakdown |-> StatusCounts(found)])

\* get_all_applications (lines 284-334)
get_all_applications(db, today, failing) ==
    LET found == search_applications(db.applications, <<>>, None, today)
        Same(result) == Outcome(result, db.applications, db.notes, db.followups)
    IN  IF failing = "applications.find" THEN Same(tool_except(DbError(failing)))
        ELSE IF found = <<>>
        THEN Same([raised |-> FALSE, success |-> TRUE,
                   message |-> "You don't have any job applications in your pipeline yet.",
                   applications |-> <<>>, count |-> 0])
        ELSE Same([raised |-> FALSE, success |-> TRUE, message |-> "You have",
                   applications |-> found, count |-> Len(found),
                   status_groups |-> StatusCounts(found)])

\* get_pipeline_summary (lines 336-353)
get_pipeline_summary(db, failing) ==
    LET Same(result) == Outcome(result, db.applications, db.notes, db.followups)
    IN  IF failing = "applications.aggregate" THEN Same(tool_except(DbError(failing)))
        ELSE Same([raised |-> FALSE, success |-> TRUE,
                   summary |-> get_application_summary(db.applications, None)])

\* ---- the inputs ----
MaxRecords == 2
MaxDay == DedupDays + 1
Companies == {<<"A", "c">>, <<" ", "a", "c">>, <<"D">>}
RoleTitles == {<<"d", "e">>, <<"Q">>}
\* company, role_title and status_stage of add_job_application
Postings == {<<<<"A", "c">>, <<"d", "e">>, "applied">>,
             <<<<" ", "a", "c">>, <<"d", "e">>, "offer">>,
             <<<<"D">>, <<"Q">>, "applied">>}
References == {<<"a">>, <<"d">>, <<"e">>, <<"z">>, <<".">>}
StatusStages == {"applied", "offer"}
NoteTexts == {None, "called the recruiter"}
\* note of schedule_followup_by_reference: any text, 24 hexadecimal digits included
FollowUpNotes == NoteTexts \cup {"64b7f0c2a1d3e4f5a6b7c8d9"}
DueDates == {"2024-01-09"}
Channels == {"email"}
\* due_at and channel of add_job_application
FollowUps == {<<None, None>>, <<"tomorrow", "email">>}
TimeRanges == {None, "this_week", "last_week"}

\* the operations a tool performs, one of which may fail during a call
FaultsOf(tool) ==
    {"none"} \cup
    CASE tool = "add_job_application" ->
             {"applications.find_one", "applications.insert_one", "notes.insert_one",
              "followups.insert_one"}
      [] tool = "update_application_status_by_reference" ->
             {"applications.find_one"}
      [] tool = "add_note_to_application_by_reference" ->
             {"applications.find_one", "notes.insert_one"}
      [] tool = "schedule_followup_by_reference" ->
             {"applications.find_one", "followups.insert_one"}
      [] tool = "search_job_applications" -> {"applications.find"}
      [] tool = "get_all_applications" -> {"applications.find"}
      [] tool = "get_pipeline_summary" -> {"applications.aggregate"}

\* ---- one action per tool; the agent runner awaits one tool call at a time ----
\* the database holds at most MaxRecords documents
ToolReturned(outcome) ==
    /\ Len(outcome.applications) + Len(outcome.notes) + Len(outcome.followups) <= MaxRecords
    /\ tool_result' = outcome.result
    /\ applications' = outcome.applications
    /\ notes' = outcome.notes
    /\ followups' = outcome.followups
    /\ UNCHANGED <<now, calls, one, pair>>

AddJobApplication(company, role_title, status_stage, note, due_at, channel, failing) ==
    /\ tool_call' = [tool |-> "add_job_application", failing |-> failing]
    /\ ToolReturned(add_job_application(Db, company, role_title, status_stage, note, due_at,
                                     channel, now, failing))

UpdateApplicationStatusByReference(application_ref, status_stage, failing) ==
    /\ tool_call' = [tool |-> "update_application_status_by_reference", failing |-> failing]
    /\ ToolReturned(update_application_status_by_reference(Db, application_ref, status_stage,
                                                        now, failing))

AddNoteToApplicationByReference(application_ref, note, failing) ==
    /\ tool_call' = [tool |-> "add_note_to_application_by_reference", failing |-> failing]
    /\ ToolReturned(add_note_to_application_by_reference(Db, application_ref, note, now, failing))

ScheduleFollowupByReference(application_ref, due_at, channel, note, failing) ==
    /\ tool_call' = [tool |-> "schedule_followup_by_reference", failing |-> failing]
    /\ ToolReturned(schedule_followup_by_reference(Db, application_ref, due_at, channel, note,
                                                now, failing))

SearchJobApplications(status_stage, company, time_range, failing) ==
    /\ tool_call' = [tool |-> "search_job_applications", failing |-> failing]
    /\ ToolReturned(search_job_applications(Db, status_stage, company, time_range, now, failing))

GetAllApplications(failing) ==
    /\ tool_call' = [tool |-> "get_all_applications", failing |-> failing]
    /\ ToolReturned(get_all_applications(Db, now, failing))

GetPipelineSummary(failing) ==
    /\ tool_call' = [tool |-> "get_pipeline_summary", failing |-> failing]
    /\ ToolReturned(get_pipeline_summary(Db, failing))

\* utcnow() (database.py lines 40-42): days pass between two tool calls
DaysPass(days) ==
    /\ now + days <= MaxDay
    /\ now' = now + days
    /\ UNCHANGED <<applications, notes, followups, calls, tool_call, tool_result, one, pair>>

InitTools == Init /\ entry = "endpoint"

NextTools ==
    \/ \E posting \in Postings,
          note \in NoteTexts, follow_up \in FollowUps,
          failing \in FaultsOf("add_job_application") :
          AddJobApplication(posting[1], posting[2], posting[3], note, follow_up[1],
                            follow_up[2], failing)
    \/ \E application_ref \in References, status_stage \in {"offer"},
          failing \in FaultsOf("update_application_status_by_reference") :
          UpdateApplicationStatusByReference(application_ref, status_stage, failing)
    \/ \E application_ref \in References, note \in NoteTexts \ {None},
          failing \in FaultsOf("add_note_to_application_by_reference") :
          AddNoteToApplicationByReference(application_ref, note, failing)
    \/ \E application_ref \in References, due_at \in DueDates,
          channel \in Channels, note \in FollowUpNotes,
          failing \in FaultsOf("schedule_followup_by_reference") :
          ScheduleFollowupByReference(application_ref, due_at, channel, note, failing)
    \/ \E status_stage \in {None, "offer"}, company \in {NoDocument, <<"D">>},
          time_range \in TimeRanges, failing \in FaultsOf("search_job_applications") :
          SearchJobApplications(status_stage, company, time_range, failing)
    \/ \E failing \in FaultsOf("get_all_applications") : GetAllApplications(failing)
    \/ \E failing \in FaultsOf("get_pipeline_summary") : GetPipelineSummary(failing)
    \/ \E days \in {DedupDays, DedupDays + 1} : DaysPass(days)

SpecTools == InitTools /\ [][NextTools]_vars

\* ---- add_job_application called by concurrent sessions ----
\* Each session's agent runner awaits its own tool call; the event loop runs
\* another session's call while one is suspended at an await of the database.
\* The calls carry no note and no follow-up.
CallsUnderWay == Cardinality({s \in Sessions : calls[s].pc # "idle"})
others_unchanged == <<notes, followups, now, tool_call, tool_result, one, pair>>

\* agent_config.py lines 67-85 and database.py lines 66-82: up to the answer
\* of db.applications.find_one
ConcurrentAddFinds(s, posting) ==
    /\ calls[s].pc = "idle"
    /\ Len(applications) + Len(notes) + Len(followups) + CallsUnderWay < MaxRecords
    /\ calls' = [calls EXCEPT ![s] =
          [pc |-> "found",
           application_data |-> [company |-> posting[1], role_title |-> posting[2],
                                 status_stage |-> posting[3]],
           recent_app |-> find_recent_application(applications, get_user_id(None),
                              strip(lower(posting[1])), strip(lower(posting[2])),
                              DedupDays, now),
           result |-> NoResult]]
    /\ UNCHANGED <<applications, others_unchanged>>

\* database.py lines 84-110 and agent_config.py lines 87-106: the update or
\* the insert, and the tool's result
ConcurrentAddReturns(s) ==
    /\ calls[s].pc = "found"
    /\ LET result == create_application_with_dedup_write(applications,
                          calls[s].application_data, calls[s].recent_app, now, "none")
       IN  /\ applications' = result.applications
           /\ calls' = [calls EXCEPT ![s] =
                 [pc |-> "idle", application_data |-> <<>>, recent_app |-> <<>>,
                  result |-> IF result.raised THEN tool_except(result.error)
                             ELSE [raised |-> FALSE, success |-> TRUE,
                                   message |-> result.value.message,
                                   application_id |-> result.value.application_id,
                                   updated |-> result.value.updated]]]
    /\ UNCHANGED others_unchanged

NextConcurrent ==
    \/ \E s \in Sessions, posting \in Postings : ConcurrentAddFinds(s, posting)
    \/ \E s \in Sessions : ConcurrentAddReturns(s)
    \/ \E days \in {DedupDays, DedupDays + 1} : DaysPass(days)

SpecConcurrent == InitTools /\ [][NextConcurrent]_vars

----------------------------------------------------------------------------
(* Properties *)

\* The history Workflow.run has accumulated itself: the runner's input followed by
\* the items streamed so far.
LocallyAccumulated == runner_input \o ItemsOf(runner_events)

IsFramedEvent(ev) == ev.kind \in {"run_item", "text_delta"}
ReasonOf(ev) == IF ev.kind = "run_item" THEN "response.input_item" ELSE "response.text.delta"
IsAudioDelta(frame) == frame.type = "response.audio.delta"
IsAudioDone(frame) == frame.type = "audio.done"

\* websocket_endpoint has handled a new-text frame and its turn ran to the end
TextTurnCompleted ==
    /\ entry = "endpoint" /\ pc = "done" /\ fault = "none"
    /\ runner_calls = 1 /\ pipeline_inputs = <<>>

\* C1: the frames of a text turn of websocket_endpoint that completes without
\* error are one history.updated/user.input, then one history.updated per item
\* or text-delta event of the runner with the matching reason, in the order of
\* the events, then one history.updated/response.done, and nothing after it.
C1_TextTurnFrameOrder ==
    TextTurnCompleted =>
        LET framed == SelectSeq(runner_events, IsFramedEvent)
        IN  /\ Len(sent) = Len(framed) + 2
            /\ \A i \in 1..Len(sent) : sent[i].type = "history.updated"
            /\ sent[1].reason = "user.input"
            /\ \A i \in 1..Len(framed) : sent[i + 1].reason = ReasonOf(framed[i])
            /\ sent[Len(sent)].reason = "response.done"
            /\ last_sent = HistoryUpdated("response.done", history, latest_agent)

C1_Witness ==
    /\ TextTurnCompleted
    /\ \E i, j \in 1..Len(runner_events) :
          runner_events[i].kind = "run_item" /\ runner_events[j].kind = "text_delta"

\* websocket_endpoint has handled a commit frame that found chunks in the buffer
\* (the pipeline completed or raised)
CommitHandled ==
    /\ entry = "endpoint" /\ pc = "done" /\ pipeline_inputs # <<>>

\* C2: every audio-commit with a non-empty buffer is followed by exactly one
\* audio.done frame, after the last response.audio.delta frame of the commit,
\* whether the pipeline completes or raises.
C2_AudioDoneAfterCommit ==
    CommitHandled =>
        /\ Len(SelectSeq(sent, IsAudioDone)) = 1
        /\ \A i, j \in 1..Len(sent) : (IsAudioDelta(sent[i]) /\ IsAudioDone(sent[j])) => i < j

\* C3: when the agent runner or the speech pipeline raises during a turn,
\* websocket_endpoint stays in its receive loop (the connection is not closed).
C3_TurnFailureKeepsConnection ==
    (entry = "endpoint" /\ fault \in {"runner", "pipeline"}) => pc # "closed"

\* C4: after a Workflow.run that consumed the runner's stream to exhaustion,
\* partial_response is empty and history is output.to_input_list().
C4_FinalTranscriptReplacesHistory ==
    runner_final # <<>> => (partial_response = <<>> /\ history = runner_final)

C4_Witness ==
    /\ pc = "done" /\ fault = "none" /\ runner_final # <<>>
    /\ runner_final # LocallyAccumulated
    /\ \E i \in 1..Len(runner_events) : runner_events[i].kind = "text_delta"

\* An item whose content is text streamed as deltas
DeltaTokens == UNION {{d[i] : i \in 1..Len(d)} : d \in TextDeltas}
IsPartialItem(item) ==
    IF "content" \in DOMAIN item
    THEN item.content # <<>> /\ \A i \in 1..Len(item.content) : item.content[i] \in DeltaTokens
    ELSE FALSE

\* Workflow.run is consuming the stream, or was left by an exception before the
\* stream was exhausted
StreamNotExhausted ==
    \/ pc = "stream_events"
    \/ fault # "none" /\ runner_calls = 1 /\ runner_final = <<>>

\* C5: history never holds an item built from partial assistant text: text-delta
\* events leave history as the runner's input plus the streamed items, also after
\* a turn that fails mid-stream, and the synthetic assistant item exists only in
\* the response.text.delta frame, after the whole history.
C5_NoPartialTextInHistory ==
    /\ \A i \in 1..Len(history) : ~IsPartialItem(history[i])
    /\ StreamNotExhausted => history = LocallyAccumulated
    /\ (pc = "stream_events" /\ IsTextDeltaFrame(last_sent)) =>
           last_sent.inputs = history \o <<AssistantItem(partial_response)>>

C5_Witness ==
    /\ fault = "runner" /\ partial_response # <<>>
    /\ \E i \in 1..Len(runner_events) : runner_events[i].kind = "text_delta"
    /\ \E i \in 1..Len(runner_events) : runner_events[i].kind = "run_item"

\* C6: in every turn the user item is the last item of history and the
\* user.input frame is sent before the runner is invoked, and the runner is
\* invoked with the active agent and the history ending with that user item.
C6_UserInputBeforeRunner ==
    /\ pc = "run_streamed" =>
           /\ history # <<>> /\ Last(history) = UserItem(input_text)
           /\ last_sent = HistoryUpdated("user.input", history, latest_agent)
           /\ sent = <<Header(last_sent)>>
           /\ runner_calls = 0
    /\ runner_calls > 0 =>
           /\ runner_input # <<>> /\ Last(runner_input) = UserItem(input_text)
           /\ sent # <<>>
           /\ sent[1] = Header(HistoryUpdated("user.input", runner_input, runner_agent))
    /\ pc = "stream_events" => runner_agent = latest_agent

C6_Witness ==
    /\ pc = "stream_events" /\ runner_calls = 1 /\ runner_events = <<>>
    /\ Len(runner_input) >= 2 /\ runner_agent # job_tracking_agent

\* The decoding of the path the connection is served by
DecodeChunk(delta) ==
    IF entry = "endpoint"
    THEN extract_audio_chunk([type |-> "input_audio_buffer.append", delta |-> delta]).chunk
    ELSE append_audio_decode(delta).chunk

\* decode(C1) ++ ... ++ decode(Ck)
RECURSIVE DecodedInOrder(_)
DecodedInOrder(deltas) ==
    IF deltas = <<>> THEN <<>>
    ELSE DecodedInOrder(ButLast(deltas)) \o DecodeChunk(Last(deltas))

RECURSIVE SumOfLengths(_)
SumOfLengths(deltas) ==
    IF deltas = <<>> THEN 0 ELSE Len(DecodeChunk(Head(deltas))) + SumOfLengths(Tail(deltas))

\* C7: append frames C1..Ck (k >= 1) followed by a commit invoke the speech
\* pipeline exactly once, with decode(C1) ++ ... ++ decode(Ck) in arrival order.
C7_PipelineGetsChunksInOrder ==
    /\ (last_frame = CommitFrame /\ received_deltas # <<>>) =>
           /\ pipeline_inputs = <<DecodedInOrder(received_deltas)>>
           /\ Len(pipeline_inputs[1]) = SumOfLengths(received_deltas)
    /\ (last_frame # CommitFrame \/ received_deltas = <<>>) => pipeline_inputs = <<>>

C7_Witness ==
    /\ entry = "endpoint" /\ pc = "done" /\ fault = "none" /\ last_frame = CommitFrame
    /\ Len(received_deltas) = 3 /\ Len(pipeline_inputs) = 1 /\ Len(pipeline_inputs[1]) = 4

\* The session's audio buffer: the endpoint's local list, or the helper's
SessionAudioBuffer == IF entry = "endpoint" THEN audio_buffer ELSE self_audio_buffer

\* C8: after an audio-commit has been handled, with pipeline success or failure,
\* the audio buffer is empty; between commits the buffer holds exactly the chunks
\* appended since the previous commit.
C8_BufferEmptyAfterCommit ==
    /\ (pc = "done" /\ last_frame = CommitFrame) =>
           (audio_buffer = <<>> /\ self_audio_buffer = <<>>)
    /\ (pc \in {"recv", "done"} /\ last_frame # CommitFrame) =>
           /\ Len(SessionAudioBuffer) = Len(received_deltas)
           /\ \A i \in 1..Len(received_deltas) :
                 SessionAudioBuffer[i] = DecodeChunk(received_deltas[i])

C8_Witness ==
    /\ pc = "done" /\ last_frame = CommitFrame /\ fault = "pipeline"
    /\ pipeline_inputs # <<>> /\ Len(received_deltas) >= 2

\* C9: a malformed inbound frame (invalid JSON, or an append whose delta is not
\* valid base64 PCM16) is dropped and websocket_endpoint stays in its receive loop.
C9_MalformedFrameKeepsConnection ==
    (entry = "endpoint" /\ fault \in {"json", "decode"}) => pc # "closed"

\* C10: an audio-append whose decoding fails leaves the audio buffer as it was
\* before the frame, in websocket_endpoint and in WebsocketHelper.append_audio.
C10_FailedAppendLeavesBuffer ==
    [][(fault = "none" /\ fault' = "decode") =>
           /\ audio_buffer' = audio_buffer
           /\ self_audio_buffer' = self_audio_buffer
           /\ has_audio_buffer' = has_audio_buffer]_vars

C10_Witness ==
    /\ entry = "manager" /\ fault = "decode" /\ Len(self_audio_buffer) >= 2

\* A history.update frame whose last input has role user and no content
IsUserNoContentFrame(frame) ==
    IF "type" \in DOMAIN frame /\ "inputs" \in DOMAIN frame
    THEN IF frame.type = "history.update" /\ frame.inputs # <<>>
         THEN GetRole(Last(frame.inputs)) = "user" /\ "content" \notin DOMAIN Last(frame.inputs)
         ELSE FALSE
    ELSE FALSE

\* C11: a history.update frame whose last input has role user but no content is
\* rejected: no turn is started, history is left unchanged, and websocket_endpoint
\* stays in its receive loop.
C11_NoContentFrameRejected ==
    [][(entry = "endpoint" /\ pc = "recv" /\ IsUserNoContentFrame(last_frame')) =>
           /\ history' = history
           /\ mode' = "idle"
           /\ pc' = "done"]_vars

\* A frame that carries a type, which is none of the three the server knows
HasUnknownType(frame) ==
    IF "type" \in DOMAIN frame
    THEN frame.type \notin {"history.update", "input_audio_buffer.append",
                            "input_audio_buffer.commit"}
    ELSE FALSE

\* C12: an inbound frame whose type is none of history.update,
\* input_audio_buffer.append, input_audio_buffer.commit raises no exception and
\* is dropped: history, agent, partial_response and the audio buffer are unchanged,
\* no frame is written, and the connection goes on receiving.
C12_UnknownTypeDropped ==
    [][(pc = "recv" /\ HasUnknownType(last_frame')) =>
           /\ UNCHANGED <<history, latest_agent, partial_response, audio_buffer,
                          has_audio_buffer, self_audio_buffer, sent, last_sent,
                          active_connections, voice_pipelines>>
           /\ fault' = "none"
           /\ mode' = "idle"
           /\ pc' = "done"]_vars

C12_Witness ==
    /\ entry = "endpoint" /\ pc = "done" /\ HasUnknownType(last_frame)
    /\ history # <<>> /\ audio_buffer # <<>>

\* The classifier predicates that return true for a frame (one that raises
\* KeyError returns nothing)
TagsOf(frame) ==
    IF "type" \notin DOMAIN frame THEN {}
    ELSE (IF frame.type = "history.update" /\ "inputs" \notin DOMAIN frame
          THEN {}
          ELSE (IF is_sync_message(frame) THEN {"is_sync_message"} ELSE {})
               \cup (IF is_new_text_message(frame) THEN {"is_new_text_message"} ELSE {}))
         \cup (IF is_new_audio_chunk(frame) THEN {"is_new_audio_chunk"} ELSE {})
         \cup (IF is_audio_complete(frame) THEN {"is_audio_complete"} ELSE {})

HasKnownType(frame) ==
    IF "type" \in DOMAIN frame
    THEN frame.type \in {"history.update", "input_audio_buffer.append",
                         "input_audio_buffer.commit"}
    ELSE FALSE

\* A history.update frame whose inputs are empty or do not end with a user item
IsSyncShaped(frame) ==
    IF "type" \in DOMAIN frame /\ "inputs" \in DOMAIN frame
    THEN frame.type = "history.update"
         /\ (IF frame.inputs = <<>> THEN TRUE ELSE GetRole(Last(frame.inputs)) # "user")
    ELSE FALSE

\* C13: for a history.update frame whose inputs are empty or whose last input is
\* not from the user, is_sync_message is true and is_new_text_message false; for
\* every frame at most one of the four classifier predicates holds, and exactly
\* one holds when the type is one of the three known types.
C13_ExactlyOneClassifier ==
    entry = "endpoint" =>
        /\ IsSyncShaped(last_frame) => TagsOf(last_frame) = {"is_sync_message"}
        /\ Cardinality(TagsOf(last_frame)) <= 1
        /\ HasKnownType(last_frame) => Cardinality(TagsOf(last_frame)) = 1

\* A history.update frame whose last input is from the user
IsNewTextShaped(frame) ==
    IF "type" \in DOMAIN frame /\ "inputs" \in DOMAIN frame
    THEN frame.type = "history.update"
         /\ (IF frame.inputs = <<>> THEN FALSE ELSE GetRole(Last(frame.inputs)) = "user")
    ELSE FALSE

\* websocket_endpoint has called process_inputs on last_frame and it has returned
ProcessInputsReturned ==
    entry = "endpoint" /\ mode = "text" /\ pc = "show_user_input"

RECURSIVE TextOf(_)
TextOf(events) ==
    IF events = <<>> THEN <<>>
    ELSE LET ev == Last(events)
         IN  TextOf(ButLast(events)) \o (IF ev.kind = "text_delta" THEN ev.delta ELSE <<>>)

\* C15: partial_response is empty when Workflow.run invokes the runner, also in
\* a turn that follows one which failed mid-stream after text deltas, so that a
\* response.text.delta frame carries text of its own turn only.
C15_PartialEmptyAtTurnStart ==
    /\ (pc = "stream_events" /\ runner_events = <<>>) => partial_response = <<>>
    /\ pc = "stream_events" => partial_response = TextOf(runner_events)

\* C16: an audio-commit received while the audio buffer is empty is a no-op: the
\* pipeline is not invoked, no frame is written, history, agent and
\* partial_response are unchanged and the buffer is still empty, so that a
\* repeated empty commit does the same again.
C16_EmptyCommitIsNoOp ==
    [][(pc = "recv" /\ last_frame' = CommitFrame /\ SessionAudioBuffer = <<>>) =>
           /\ UNCHANGED <<history, latest_agent, partial_response, sent, last_sent,
                          pipeline_inputs, runner_calls, audio_buffer>>
           /\ self_audio_buffer' = <<>>
           /\ fault' = "none"
           /\ mode' = "idle"
           /\ pc' = "done"]_vars

C16_Witness ==
    /\ entry = "endpoint" /\ pc = "done" /\ last_frame = CommitFrame
    /\ pipeline_inputs = <<>> /\ sent = <<>>
    /\ has_audio_buffer /\ history # <<>> /\ partial_response # <<>>

\* C17: websocket_endpoint reads the next frame only after the handling of the
\* previous one, a whole turn or a whole commit included, has finished: no frame
\* is taken while a handler is at work on the session.
C17_FramesHandledOneAtATime ==
    [][(entry = "endpoint" /\ last_frame' # last_frame /\ last_frame' # NoFrame) =>
           /\ pc = "recv" /\ mode = "idle"
           /\ last_frame = NoFrame
           /\ runner_calls = 0 /\ pipeline_inputs = <<>> /\ sent = <<>>]_vars

C17_Witness ==
    /\ entry = "endpoint" /\ pc = "stream_events" /\ mode = "text"
    /\ partial_response # <<>> /\ runner_events = <<>>

\* the session of a call, what it has emitted and where its task is
ViewOf(call) == <<tasks[call], HelperOf(call), BufferOf(call)>>

\* C18: under any interleaving of two connections, a step of one connection
\* (a frame handled, a turn step, a failure, a termination) leaves the other
\* connection's history, agent, partial_response, audio buffer, emitted frames
\* and task position as they were.
C18_SessionsIsolated ==
    [][\A call \in Conns : actor' # call => ViewOf(call)' = ViewOf(call)]_vars

C18_Witness ==
    /\ tasks["conn_1"].pc = "closed" /\ tasks["conn_1"].mode = "idle"
    /\ HelperOf("conn_1").partial_response # <<>>
    /\ tasks["conn_2"].pc = "stream_events" /\ tasks["conn_2"].mode = "voice"
    /\ HelperOf("conn_2").history # HelperOf("conn_1").history
    /\ actor = "conn_1"

\* C19: once a send has failed in websocket_endpoint (the client has gone), in a
\* text turn or in an audio commit, no further frame is written, no runner or
\* pipeline is started and no further frame is taken, and the task ends by
\* returning from websocket_endpoint.
C19_DisconnectEndsTask ==
    /\ [][(entry = "endpoint" /\ peer = "gone") =>
              /\ sent' = sent \/ sent' = <<>>
              /\ runner_calls' <= runner_calls
              /\ pipeline_inputs' = pipeline_inputs \/ pipeline_inputs' = <<>>
              /\ last_frame' = last_frame \/ last_frame' = NoFrame
              /\ mode' = "idle"
              /\ pc' \in {"done", "recv", "closed"}]_vars
    /\ (entry = "endpoint" /\ peer = "gone") ~> (pc = "closed")

C19_Witness ==
    /\ entry = "endpoint" /\ peer = "gone" /\ pc = "recv"
    /\ history # <<>> /\ partial_response # <<>> /\ audio_buffer = <<>>

\* a step that registers a new connection under the identifier (connect)
----------------------------------------------------------------------------
(* WebSocketManager with a second client.  The helper of the second client is
   another object; only its entries in the two tables are followed. *)

other_client_id == "client_2"
ClientIds == {client_id, other_client_id}

\* connect for the second client, registered or not; accept may raise
MgrConnectOther(failing) ==
    /\ entry = "manager"
    /\ LET after == connect(active_connections, voice_pipelines, other_client_id, failing)
       IN  /\ active_connections' = after.active_connections
           /\ voice_pipelines' = after.voice_pipelines
    /\ UNCHANGED <<store, pair, entry, pc, mode, peer, session, buffers, turn, sent, last_sent,
                   pipeline_inputs, received_deltas, last_frame, fault>>

\* disconnect for the second client, registered or not; an exception of
\* disconnect is recorded in fault
MgrDisconnectOther ==
    /\ entry = "manager"
    /\ LET after == disconnect(active_connections, voice_pipelines, other_client_id)
       IN  /\ active_connections' = after.active_connections
           /\ voice_pipelines' = after.voice_pipelines
           /\ fault' = IF after.raised THEN "disconnect" ELSE fault
    /\ UNCHANGED <<store, pair, entry, pc, mode, peer, session, buffers, turn, sent, last_sent,
                   pipeline_inputs, received_deltas, last_frame>>

InitManager == Init /\ entry = "manager"

NextManager ==
    \/ MgrConnect
    \/ MgrDisconnect
    \/ \E failing \in {"none", "accept"} : MgrConnectOther(failing)
    \/ MgrDisconnectOther
    \/ \E data \in InboundFrames : MgrHandleHistoryUpdate(data)
    \/ \E data \in InboundFrames : MgrHandleAudioAppend(data)
    \/ \E data \in InboundFrames : MgrHandleAudioCommit(data)
    \/ \E data \in InboundFrames : MgrHandleUnknown(data)
    \/ MgrHandleInvalidJson
    \/ \E data \in InboundFrames : MgrHandleUnregistered(data)
    \/ LoopBack
    \/ ShowUserInput
    \/ RunStreamed
    \/ \E item \in RunnerItems : StreamItemEvent(item)
    \/ \E delta \in TextDeltas : StreamTextDelta(delta)
    \/ StreamOtherEvent
    \/ StreamRaises
    \/ \E to_input_list \in FinalTranscripts(runner_input), last_agent \in Agents :
          StreamExhausted(to_input_list, last_agent)
    \/ \E text \in Transcripts : PipelineTranscribed(text)
    \/ PipelineRaises
    \/ \E data \in SynthesizedAudio : SendAudioChunk(data)
    \/ PipelineCompleted

SpecManager == InitManager /\ [][NextManager]_vars

IsNewConnection ==
    /\ entry = "manager" /\ pc' = "recv"
    /\ client_id \in active_connections' /\ client_id \in voice_pipelines'
    /\ history' = <<>> /\ partial_response' = <<>> /\ sent' = sent

C21_FramesFollowEvents ==
    /\ [](pc = "stream_events" =>
             LET framed == SelectSeq(runner_events, IsFramedEvent)
                 updates == SelectSeq(sent, IsHistoryUpdated)
             IN  /\ Len(updates) = Len(framed) + 1
                 /\ updates[1].reason = "user.input"
                 /\ \A i \in 1..Len(framed) : updates[i + 1].reason = ReasonOf(framed[i]))
    /\ [][(sent' # sent /\ sent' # <<>>) =>
              /\ IsPrefix(sent, sent')
              /\ last_frame' # NoFrame
              /\ last_frame' = last_frame \/ (sent = <<>> /\ last_frame = NoFrame)]_vars

C21_Witness ==
    /\ pc = "stream_events" /\ mode = "voice"
    /\ Len(runner_events) = 2
    /\ runner_events[1].kind = "run_item" /\ runner_events[2].kind = "text_delta"
    /\ Len(sent) > 3

ReasonTags == {"user.input", "response.input_item", "response.text.delta", "response.done",
               "history.update"}

\* C22: every history.updated frame a WebsocketHelper writes carries a reason of
\* the fixed set and the name of the helper's agent, and its inputs are the
\* helper's history (followed by the one synthetic assistant item when the reason
\* is response.text.delta).
C22_HistoryUpdatedFrames ==
    /\ \A i \in 1..Len(sent) :
          IsHistoryUpdated(sent[i]) =>
              /\ "reason" \in DOMAIN sent[i] /\ sent[i].reason \in ReasonTags
              /\ sent[i].agent_name = latest_agent
    /\ (sent # <<>> /\ IsHistoryUpdated(last_sent)) =>
           last_sent.inputs = IF IsTextDeltaFrame(last_sent)
                              THEN history \o <<AssistantItem(partial_response)>>
                              ELSE history

\* the step consumes a completed-item event of the runner's stream
ItemEventConsumed ==
    /\ Len(runner_events') = Len(runner_events) + 1
    /\ Last(runner_events').kind = "run_item"

\* C23: a completed-item event appends its one item at the end of history and
\* leaves the items before it as they were, and (the socket working) writes one
\* history.updated frame with reason response.input_item whose inputs are the
\* history after the append; while the stream is consumed history changes in no
\* other way.
C23_ItemEventAppendsOne ==
    [][pc = "stream_events" =>
          /\ ItemEventConsumed =>
                /\ history' = Append(history, Last(runner_events').item)
                /\ \/ fault' = "send" /\ sent' \in {sent, <<>>}
                   \/ /\ sent' = Append(sent, Header(HistoryUpdated("response.input_item",
                                                                    history', latest_agent)))
                      /\ last_sent' = HistoryUpdated("response.input_item", history', latest_agent)
          /\ (pc' = "stream_events" /\ history' # history) => ItemEventConsumed]_vars

C23_Witness ==
    /\ pc = "stream_events" /\ runner_events # <<>>
    /\ Last(runner_events).kind = "run_item"
    /\ Len(history) > 2
    /\ last_sent = HistoryUpdated("response.input_item", history, latest_agent)

\* the step consumes an event that is neither a completed item nor a text delta
OtherEventConsumed ==
    /\ Len(runner_events') = Len(runner_events) + 1
    /\ Last(runner_events').kind = "other"

\* C24: a runner event that is neither a completed item nor a text delta writes
\* no frame and leaves history and partial_response as they were.
C24_OtherEventIsSilent ==
    [][OtherEventConsumed =>
          /\ UNCHANGED <<history, partial_response, sent, last_sent>>
          /\ pc' = pc /\ fault' = fault]_vars

C24_Witness ==
    /\ pc = "stream_events" /\ Len(runner_events) = 2
    /\ runner_events[1].kind = "text_delta" /\ runner_events[2].kind = "other"
    /\ Len(sent) = 2 /\ partial_response # <<>>

\* the frame taken in this step is a history sync that asks for the agent reset
\* (for WebSocketManager every history.update is a sync)
ResetBySync ==
    /\ last_frame' # last_frame
    /\ GetType(last_frame') = "history.update"
    /\ GetResetAgent(last_frame')
    /\ entry = "endpoint" =>
           (IF "inputs" \in DOMAIN last_frame' THEN is_sync_message(last_frame') ELSE FALSE)

\* the step finishes a turn (text_output_complete) or sets a connection up or down
TurnFinalized == runner_final = <<>> /\ runner_final' # <<>>
ConnectionSetUpOrDown == pc \in {"accept", "closed"} \/ (entry = "manager" /\ pc' = "closed")

\* C25: when a turn is finalized the active agent is the runner's last agent;
\* every turn invokes the runner with the active agent; and the active agent
\* changes only when a turn is finalized or a history sync carries reset_agent
\* (then it is the initial agent), never through a new-text message.
C25_AgentHandOff ==
    /\ [](runner_final # <<>> => latest_agent = runner_last_agent)
    /\ [](pc = "stream_events" => runner_agent = latest_agent)
    /\ [][latest_agent' # latest_agent =>
              \/ TurnFinalized /\ latest_agent' = runner_last_agent'
              \/ ResetBySync /\ latest_agent' = job_tracking_agent
              \/ ConnectionSetUpOrDown /\ latest_agent' = job_tracking_agent]_vars

C25_Witness ==
    /\ entry = "endpoint" /\ pc = "stream_events" /\ mode = "text"
    /\ runner_agent = "handoff_agent"
    /\ GetResetAgent(last_frame)

\* the step takes a history-sync frame
SyncTaken == pc = "recv" /\ last_frame' # last_frame /\ IsSyncShaped(last_frame')

\* C26: a history-sync frame makes history the inputs it carries, makes the
\* initial agent active exactly when reset_agent is true, leaves
\* partial_response and the audio buffers as they were and starts neither the
\* runner nor the pipeline.
C26_SyncReplacesHistory ==
    [][IF SyncTaken
       THEN /\ history' = last_frame'.inputs
            /\ latest_agent' = IF GetResetAgent(last_frame')
                               THEN job_tracking_agent ELSE latest_agent
            /\ UNCHANGED <<partial_response, buffers, runner_calls, pipeline_inputs>>
            /\ mode' = "idle" /\ pc' = "done"
       ELSE TRUE]_vars

C26_Witness ==
    /\ pc = "done" /\ IsSyncShaped(last_frame) /\ ~GetResetAgent(last_frame)
    /\ latest_agent = "handoff_agent" /\ partial_response # <<>>
    /\ history = <<ClientAssistant>>

\* the step accepts a connection (websocket_endpoint lines 128-130, connect)
ConnectionAccepted == pc \in {"accept", "closed"} /\ pc' = "recv"

\* C27: accepting a connection leaves an empty history, the initial agent and an
\* empty partial_response and writes no frame; whenever a frame has been written,
\* an inbound frame has been received before it.
C27_AcceptIsSilent ==
    /\ [][ConnectionAccepted =>
              /\ history' = <<>> /\ latest_agent' = job_tracking_agent
              /\ partial_response' = <<>>
              /\ UNCHANGED <<sent, last_sent>>]_vars
    /\ []((sent # <<>> \/ last_sent # NothingSent) =>
              (last_frame # NoFrame /\ pc # "accept"))

C27_Witness ==
    /\ Len(sent) = 1 /\ last_frame # NoFrame
    /\ pc = "run_streamed" /\ mode = "text"
    /\ last_frame.inputs = <<ClientUser>>

\* the application a call of add_job_application for that company and role
\* is a duplicate of, at the time of the call
RecentApplicationFor(company, role_title) ==
    find_recent_application(applications, DEFAULT_USER_ID, strip(lower(company)),
                            strip(lower(role_title)), DedupDays, now)

\* C28: when add_job_application is called, no operation of the database
\* failing, for a company and role for which the user has an application
\* created within the last 14 days, no record is inserted, that record gets the
\* new field values, and the result reports success with updated = true and
\* the id of that record.
C28_DuplicateCollapsesIntoUpdate ==
    [][\A posting \in Postings, note \in NoteTexts, follow_up \in FollowUps :
          (/\ RecentApplicationFor(posting[1], posting[2]) # NoDocument
           /\ AddJobApplication(posting[1], posting[2], posting[3], note, follow_up[1],
                                follow_up[2], "none"))
          => /\ Len(applications') = Len(applications)
             /\ \E i \in 1..Len(applications') :
                   /\ applications'[i]._id = RecentApplicationFor(posting[1], posting[2])._id
                   /\ applications'[i].status_stage = posting[3]
             /\ tool_result'.success
             /\ IF "updated" \in DOMAIN tool_result'
                THEN /\ tool_result'.updated
                     /\ tool_result'.application_id
                           = StrOfObjectId(RecentApplicationFor(posting[1], posting[2])._id)
                ELSE FALSE]_vars

\* the operation of the database every call of the tool starts with
FirstOperation(tool) ==
    CASE tool \in {"add_job_application", "update_application_status_by_reference",
                   "add_note_to_application_by_reference",
                   "schedule_followup_by_reference"} -> "applications.find_one"
      [] tool \in {"search_job_applications", "get_all_applications"} -> "applications.find"
      [] tool = "get_pipeline_summary" -> "applications.aggregate"
      [] OTHER -> "none"

\* C29: no tool call ends in an exception that reaches the agent runner: a
\* result that is not a success carries success = false and an error message,
\* and a call whose first operation on the database fails returns such a result.
C29_ToolsNeverRaise ==
    /\ ~tool_result.raised
    /\ (\/ ~tool_result.success
        \/ tool_call.tool # "None" /\ tool_call.failing = FirstOperation(tool_call.tool))
       => /\ tool_result.success = FALSE
          /\ "error" \in DOMAIN tool_result

\* a tool call in which an insert failed has returned the failure as a result
C29_Witness ==
    /\ tool_call.tool = "add_job_application"
    /\ tool_call.failing = "notes.insert_one"
    /\ ~tool_result.raised
    /\ tool_result.success = FALSE
    /\ tool_result.error = DbError("notes.insert_one")

\* the text contains the reference, letter case ignored
ContainsIgnoringCase(reference, text) ==
    \E offset \in 0..Len(text) :
        /\ offset + Len(reference) <= Len(text)
        /\ \A i \in 1..Len(reference) :
              LowerChar(reference[i]) = LowerChar(text[offset + i])

\* the application the reference names: the most recently created one of the
\* default user whose company contains it, else the most recently created one
\* whose role title contains it
NamedByReference(reference) ==
    LET CompanyContains(doc) == /\ doc.user_id = ObjectId(DEFAULT_USER_ID)
                                /\ ContainsIgnoringCase(reference, doc.company)
        RoleTitleContains(doc) == /\ doc.user_id = ObjectId(DEFAULT_USER_ID)
                                  /\ ContainsIgnoringCase(reference, doc.role_title)
    IN  IF SelectSeq(applications, CompanyContains) # <<>>
        THEN LatestOf(SelectSeq(applications, CompanyContains))
        ELSE LatestOf(SelectSeq(applications, RoleTitleContains))

\* C30: the application a by-reference tool acts on is the most recently
\* created one whose company contains the reference as a substring, letter
\* case ignored; if no company contains it, the most recently created one
\* whose role title contains it; and none is found if neither does.
C30_ReferenceIsSubstring ==
    [][\A application_ref \in References, note \in NoteTexts \ {None} :
          AddNoteToApplicationByReference(application_ref, note, "none")
          => IF NamedByReference(application_ref) = NoDocument
             THEN tool_result' = NotFound(application_ref)
             ELSE IF tool_result'.success
             THEN tool_result'.application_id
                     = StrOfObjectId(NamedByReference(application_ref)._id)
             ELSE FALSE]_vars

\* the documents of the three collections
StoredDocuments ==
    {applications[i] : i \in 1..Len(applications)}
    \cup {notes[i] : i \in 1..Len(notes)}
    \cup {followups[i] : i \in 1..Len(followups)}

\* C31: every application, note and follow-up a tool call has written carries
\* the default user id, whatever the arguments of the call were.
C31_RecordsOfDefaultUser ==
    \A doc \in StoredDocuments : doc.user_id = ObjectId(DEFAULT_USER_ID)

\* the application find_application_by_reference finds for the reference
FoundByReference(application_ref) ==
    find_application_by_reference(applications, application_ref, None)

\* C32: when the reference names an application and no operation of the
\* database fails, update_application_status_by_reference sets the status_stage
\* of that application to the requested stage and returns success = true with
\* its id.
C32_StatusUpdatedByReference ==
    [][\A application_ref \in References :
          (/\ FoundByReference(application_ref) # NoDocument
           /\ UpdateApplicationStatusByReference(application_ref, "offer", "none"))
          => /\ tool_result'.success
             /\ IF "application_id" \in DOMAIN tool_result'
                THEN tool_result'.application_id = FoundByReference(application_ref)._id
                ELSE FALSE
             /\ \E i \in 1..Len(applications') :
                   /\ StrOfObjectId(applications'[i]._id) = FoundByReference(application_ref)._id
                   /\ applications'[i].status_stage = "offer"]_vars

\* C33: when schedule_followup_by_reference is called with a note for a
\* reference that names an application, and no operation of the database fails,
\* exactly one follow-up is added; it is pending, belongs to that application
\* and stores the note.
C33_FollowUpStoresNote ==
    [][\A application_ref \in References, due_at \in DueDates, channel \in Channels,
          note \in FollowUpNotes \ {None} :
          (/\ FoundByReference(application_ref) # NoDocument
           /\ ScheduleFollowupByReference(application_ref, due_at, channel, note, "none"))
          => /\ Len(followups') = Len(followups) + 1
             /\ SubSeq(followups', 1, Len(followups)) = followups
             /\ followups'[Len(followups')].status = "pending"
             /\ followups'[Len(followups')].application_id
                   = ObjectId(FoundByReference(application_ref)._id)
             /\ IF "note" \in DOMAIN followups'[Len(followups')]
                THEN followups'[Len(followups')].note = note
                ELSE FALSE]_vars

\* C35: a call of add_job_application that returns success = false leaves the
\* three collections as they were before the call.
C35_FailedAddChangesNothing ==
    [][\A posting \in Postings, note \in NoteTexts, follow_up \in FollowUps,
          failing \in FaultsOf("add_job_application") :
          (/\ AddJobApplication(posting[1], posting[2], posting[3], note, follow_up[1],
                                follow_up[2], failing)
           /\ tool_result'.success = FALSE)
          => UNCHANGED <<applications, notes, followups>>]_vars

\* two applications of the same user, normalized company and normalized role
\* whose creation dates lie within one window of DedupDays days
Duplicates(i, j) ==
    /\ applications[i].user_id = applications[j].user_id
    /\ applications[i].company_norm = applications[j].company_norm
    /\ applications[i].role_title_norm = applications[j].role_title_norm
    /\ applications[j].created_at - applications[i].created_at <= DedupDays

\* C34: whatever the interleaving of concurrent add_job_application calls, no
\* two applications of the same user, normalized company and normalized role
\* are created within one 14-day window.
C34_NoDuplicatesUnderConcurrency ==
    \A i, j \in 1..Len(applications) : i < j => ~Duplicates(i, j)

\* the frames that start no turn: runner_calls stays 0 while one is handled
NoRunnerForOtherFrames ==
    /\ (~IsNewTextShaped(last_frame) /\ last_frame # CommitFrame) => runner_calls = 0
    /\ (last_frame = CommitFrame /\ pipeline_inputs = <<>>) => runner_calls = 0
    /\ runner_calls <= 1

\* C36 as stated: in websocket_endpoint every new-text message whose handling
\* has ended has caused exactly one invocation of the agent runner, a commit of
\* a non-empty buffer at most one, and every other message none.
C36_ExactlyOneRunPerText ==
    entry = "endpoint" =>
        /\ NoRunnerForOtherFrames
        /\ (IsNewTextShaped(last_frame) /\ pc \in {"done", "closed"}) => runner_calls = 1

\* C36: in websocket_endpoint a new-text message causes at most one invocation
\* of the agent runner, and exactly one as soon as show_user_input has written
\* its user.input frame and Workflow.run has gone on; it causes none when
\* process_inputs raises or that frame cannot be written.  A commit of a
\* non-empty buffer causes at most one, and every other message none.
C36_RunnerCallsPerFrame ==
    entry = "endpoint" =>
        /\ NoRunnerForOtherFrames
        /\ IsNewTextShaped(last_frame) =>
              (runner_calls = 1 <=> (sent # <<>> /\ pc \notin {"show_user_input", "run_streamed"}))

\* a text turn has ended and the runner was invoked once for it
C36_Witness ==
    /\ entry = "endpoint" /\ pc = "done" /\ fault = "none"
    /\ IsNewTextShaped(last_frame) /\ last_frame.inputs = <<ClientAssistant, ClientUser>>
    /\ runner_calls = 1 /\ Len(runner_events) = MaxEvents

\* a step of Workflow.run that consumes a text-delta event
TextDeltaConsumed ==
    /\ Len(runner_events') = Len(runner_events) + 1
    /\ Last(runner_events').kind = "text_delta"

\* C37: consuming a text-delta event extends partial_response by the delta,
\* once, and writes one response.text.delta frame (none when the write raises),
\* in a text turn, where websocket_endpoint calls stream_response a second
\* time with is_text = True, as well as in a voice turn.
C37_DeltaCountedOnce ==
    [][TextDeltaConsumed =>
          /\ partial_response' = partial_response \o Last(runner_events').delta
          /\ history' = history
          /\ IF fault' = "send"
             THEN sent' = sent
             ELSE /\ Len(sent') = Len(sent) + 1
                  /\ SubSeq(sent', 1, Len(sent)) = sent
                  /\ IsTextDeltaFrame(Last(sent'))
                  /\ last_sent'.inputs = history \o <<AssistantItem(partial_response')>>]_vars

\* in a text turn a delta has been consumed and both calls of stream_response
\* have returned
C37_Witness ==
    /\ entry = "endpoint" /\ mode = "text" /\ pc = "stream_events"
    /\ runner_events # <<>> /\ Last(runner_events).kind = "text_delta"
    /\ partial_response = Last(runner_events).delta
    /\ Len(SelectSeq(sent, IsTextDeltaFrame)) = 1

\* the history.updated frames written for the frame being handled, in order
TurnFrames == SelectSeq(sent, IsHistoryUpdated)

\* C38: no streamed event changes the active agent, agent-updated events
\* included; every frame of a turn written before response.done names the agent
\* the runner was started with, response.done is the last of them, and it names
\* the runner's last agent.
C38_AgentFixedDuringTurn ==
    /\ [][Len(runner_events') > Len(runner_events) => latest_agent' = latest_agent]_vars
    /\ [](runner_calls = 1 =>
            \A i \in 1..Len(TurnFrames) :
                IF TurnFrames[i].reason = "response.done"
                THEN /\ i = Len(TurnFrames)
                     /\ TurnFrames[i].agent_name = runner_last_agent
                ELSE TurnFrames[i].agent_name = runner_agent)

\* a turn that streamed an agent-updated event has ended with another agent
\* than it started with
C38_Witness ==
    /\ pc = "done" /\ fault = "none" /\ runner_calls = 1
    /\ \E i \in 1..Len(runner_events) : runner_events[i].kind = "other"
    /\ runner_agent = job_tracking_agent /\ runner_last_agent = "handoff_agent"
    /\ Len(TurnFrames) >= 3
    /\ TurnFrames[1].agent_name = job_tracking_agent
    /\ Last(TurnFrames).agent_name = "handoff_agent"

\* C39: in every state reached by connect and disconnect calls for any client
\* ids, interleaved with messages, active_connections and voice_pipelines hold
\* the same client ids; and there disconnect, for a registered id or not, does
\* not raise, leaves the id in neither table and every other id where it was,
\* and leaves the tables it produced unchanged when it is called again.
C39_TablesAgree ==
    /\ active_connections = voice_pipelines
    /\ fault # "disconnect"
    /\ \A id \in ClientIds :
          LET once == disconnect(active_connections, voice_pipelines, id)
              twice == disconnect(once.active_connections, once.voice_pipelines, id)
          IN  /\ ~once.raised /\ ~twice.raised
              /\ once.active_connections = active_connections \ {id}
              /\ once.voice_pipelines = voice_pipelines \ {id}
              /\ twice = once

\* the first client has disconnected and a message for it has been skipped
\* while the second client stays registered
C39_Witness ==
    /\ entry = "manager" /\ pc = "closed"
    /\ active_connections = {other_client_id}
    /\ voice_pipelines = {other_client_id}
    /\ last_frame # NoFrame

\* a step of connect or disconnect, for either client
ConnectOrDisconnectStep ==
    \/ pc \in {"accept", "closed"} /\ pc' = "recv"
    \/ pc = "recv" /\ pc' = "closed"
    \/ UNCHANGED <<pc, last_frame, session, buffers, turn, sent, received_deltas>>

\* handle_message is between its call and its return
HandlingMessage == entry = "manager" /\ pc \notin {"accept", "recv", "closed", "done"}

\* C40: handle_message propagates no exception, whatever the message is (not
\* JSON, without a type, of an unknown type, or with a failing handler): once
\* called it goes on or returns, and none of its steps changes
\* active_connections or voice_pipelines.
C40_HandleMessageAbsorbsFailures ==
    /\ [][entry = "manager" /\ pc = "recv" /\ pc' # "recv" /\ last_frame' # last_frame
              => pc' \in {"done", "pipeline_run"}]_vars
    /\ [][HandlingMessage => pc' # "closed"]_vars
    /\ [][entry = "manager" /\ ~ConnectOrDisconnectStep => manager' = manager]_vars

\* the pipeline has failed while handling a commit, with both clients
\* registered, and handle_message has returned
C40_Witness ==
    /\ entry = "manager" /\ pc = "done"
    /\ last_frame = CommitFrame /\ fault = "pipeline"
    /\ active_connections = ClientIds /\ voice_pipelines = ClientIds


====
